---- MODULE Spec2Model ----
(***************************************************************************)
(* BretClip: the annotation history of the editor (src/editor/tools.py,    *)
(* src/editor/canvas.py) and the selection overlay of a capture            *)
(* (src/capture/selector.py, src/capture/screen.py).                       *)
(*                                                                         *)
(* Python lists are sequences; a Python index i is position i + 1 here.    *)
(* A QPoint is a record [x, y]; a QColor a triple <<r, g, b>>; an opacity  *)
(* is kept in tenths (0.4 is 4, 1.0 is 10).                                *)
(***************************************************************************)
EXTENDS Integers, Sequences, FiniteSets, TLC

VARIABLES
    \* ---- AnnotationHistory (tools.py:50-106) ----
    history,            \* self.history: list of snapshots
    current_index,      \* self.current_index (0-based, as in the source)
    hist_ret,           \* what the last undo()/redo() call returned
    hist_op,            \* the last AnnotationHistory / DrawingCanvas operation
    before,             \* the history object before the last undo()/add_state()/set_image()
    \* ---- DrawingCanvas (canvas.py:16-307) ----
    original_image,     \* self.original_image is set
    annotations,        \* self.annotations: the working list
    current_annotation, \* self.current_annotation
    current_tool,       \* self.current_tool
    is_drawing,         \* self.is_drawing
    widget_size,        \* self.size() of the canvas widget
    scale_factor,       \* self.scale_factor, as the fraction num/den
    offset,             \* self.offset
    modified,           \* the last canvas operation emitted image_modified
    \* ---- SelectionOverlay (selector.py:98-537) ----
    mode,               \* self.mode
    monitors,           \* self.monitors, from get_all_monitors()
    target_monitor_index, \* self.target_monitor_index
    overlay_offset,     \* (self.overlay_offset_x, self.overlay_offset_y)
    start_point,        \* self.start_point
    end_point,          \* self.end_point
    freeform_points,    \* self.freeform_points
    is_selecting,       \* self.is_selecting
    selection_rect,     \* self.selection_rect
    hovered_window,     \* self.hovered_window
    window_rect,        \* self.window_rect
    disp,               \* the widget: shown once, visible, still on screen
    timer_pending,      \* the QTimer.singleShot(100, _capture_fullscreen) is armed
    sct_closed,         \* self.screen_capture.close() has run
    emitted,            \* the outcome signals emitted, in order
    captures,           \* the ScreenCapture calls issued, in order
    escaped,            \* an Escape key press has been handled
    last_event,         \* the last event the overlay handled
    crashed,            \* an exception left a slot
    \* a call of a module-level function of selector.py
    call_args,          \* the arguments of the last call
    call_ret,           \* what it returned
    \* BretClipApp (bretclip.py)
    pending_mode,       \* self.pending_mode
    delay_timer,        \* self.delay_timer: the single-shot QTimer
    selector,           \* self.selector
    cleanup_pending,    \* QTimer.singleShot(0, self._cleanup_selector) armed
    editor,             \* self.editor
    started,            \* the captures _do_capture started, in order
    cancel_requested,   \* the user asked to cancel the running countdown
    \* the threads of the application (bretclip.py, hotkeys.py, tray.py)
    thread,             \* the thread that ran the last step
    callbacks,          \* the threading.Thread callbacks started, not yet run
    signal_queue,       \* SignalBridge emissions queued for the UI thread
    listening,          \* run() has started the tray icon and the hotkey hook
    quit_called,        \* QApplication.quit() has been called
    \* the objects of the editor: Python lists and Annotation instances
    list_heap,          \* the list objects: list id -> the Annotation ids it holds
    ann_heap,           \* the Annotation objects: id -> tool, points, text
    history_ref,        \* self.history of AnnotationHistory, as list ids
    annotations_ref,    \* the list object self.annotations refers to
    current_annotation_ref \* the Annotation self.current_annotation refers to

hvars == <<history, current_index, hist_ret, hist_op, before>>
cvars == <<original_image, annotations, current_annotation, current_tool,
           is_drawing, widget_size, scale_factor, offset, modified>>
ovars == <<mode, monitors, target_monitor_index, overlay_offset, start_point,
           end_point, freeform_points, is_selecting, selection_rect,
           hovered_window, window_rect, disp, timer_pending, sct_closed,
           emitted, captures, escaped, last_event, crashed>>
pvars == <<call_args, call_ret>>
avars == <<pending_mode, delay_timer, selector, cleanup_pending, editor,
           started, cancel_requested>>
tvars == <<thread, callbacks, signal_queue, listening, quit_called>>
rvars == <<list_heap, ann_heap, history_ref, annotations_ref,
           current_annotation_ref>>
vars == <<hvars, cvars, ovars, pvars, avars, tvars, rvars>>

(***************************************************************************)
(* Bounds of the model.                                                    *)
(***************************************************************************)
\* AnnotationHistory(max_history): the cap of the history.  The editor
\* builds it with the default, 50 (tools.py:53); the model runs the same
\* code with a small cap so that eviction happens within the bounds.
max_history == 3
\* The longest working annotation list the canvas model builds.
MaxAnnotations == 2
\* The longest freeform path the overlay model builds.
MaxPoints == 3
\* The longest point list of one annotation the canvas model builds.
MaxPathPoints == 2
\* The most captures the application model starts.
MaxCaptures == 2
\* The longest working list drawn with tools of every construction.
MaxStrokes == 1
\* The most list objects and Annotation objects the editor creates.
MaxHeapLists == 8
MaxHeapAnns == 5
\* The most points of one drawing gesture on the canvas.
MaxGesturePoints == 3
\* The most displays of a topology handed to get_virtual_screen_bounds.
MaxMonitors == 3
\* The most started threads and queued signals awaiting their turn.
MaxInFlight == 2

None == [none |-> TRUE]
\* color=None, the default of the AnnotationTool dataclass
NoColor == <<>>
Some(v) == [none |-> FALSE, val |-> v]
Point(px, py) == [x |-> px, y |-> py]

(***************************************************************************)
(* tools.py: ToolType, AnnotationTool, Annotation                          *)
(***************************************************************************)
ToolType == {"SELECT", "PEN", "HIGHLIGHTER", "RECTANGLE", "CIRCLE", "ARROW",
             "TEXT", "ERASER"}

Red == <<255, 0, 0>>
Yellow == <<255, 255, 0>>
Blue == <<0, 0, 255>>
\* 0.4 and 1.0, in tenths
HighlighterOpacity == 4
DefaultOpacity == 10
HighlighterSize == 20
DefaultSize == 3

\* AnnotationTool without the highlighter settings of __post_init__
AnnotationTool_no_highlighter_settings(tool_type, color, size, opacity) ==
    [tool_type |-> tool_type,
     color |-> IF color = NoColor THEN Red ELSE color,
     size |-> size, opacity |-> opacity]

\* AnnotationTool(tool_type, color, size, opacity) with __post_init__
AnnotationTool(tool_type, color, size, opacity) ==
    LET c0 == IF color = NoColor THEN Red ELSE color
    IN IF tool_type = "HIGHLIGHTER"
       THEN [tool_type |-> tool_type,
             color |-> IF c0 = Red THEN Yellow ELSE c0,
             size |-> HighlighterSize,
             opacity |-> HighlighterOpacity]
       ELSE [tool_type |-> tool_type, color |-> c0, size |-> size,
             opacity |-> opacity]

Annotation(tool, points, text) ==
    [tool |-> tool, points |-> points, text |-> text]

(***************************************************************************)
(* tools.py: AnnotationHistory.  The operators take the object as the      *)
(* record h = [history, current_index] and return it after the call, with  *)
(* the call's return value in ret.                                         *)
(***************************************************************************)
Hist == [history |-> history, current_index |-> current_index]

\* the new_state comprehension of add_state: a deep copy, which runs the
\* AnnotationTool constructor again
deep_copy(anns) ==
    [i \in 1..Len(anns) |->
        Annotation(AnnotationTool(anns[i].tool.tool_type, anns[i].tool.color,
                                  anns[i].tool.size, anns[i].tool.opacity),
                   anns[i].points, anns[i].text)]

\* s[-n:] for n >= 1
LastN(s, n) == IF Len(s) <= n THEN s ELSE SubSeq(s, Len(s) - n + 1, Len(s))

\* add_state without the removal of the redo states
add_state_no_truncate(h, anns) ==
    LET appended == Append(h.history, deep_copy(anns))
        idx == h.current_index + 1
    IN IF Len(appended) > max_history
       THEN [history |-> LastN(appended, max_history),
             current_index |-> max_history - 1, ret |-> None]
       ELSE [history |-> appended, current_index |-> idx, ret |-> None]

\* add_state without the trim of old history
add_state_no_trim(h, anns) ==
    [history |-> Append(SubSeq(h.history, 1, h.current_index + 1),
                        deep_copy(anns)),
     current_index |-> h.current_index + 1, ret |-> None]

\* add_state trimming the history from its newest end
add_state_trim_newest(h, anns) ==
    LET truncated == SubSeq(h.history, 1, h.current_index + 1)
        appended == Append(truncated, deep_copy(anns))
        idx == h.current_index + 1
    IN IF Len(appended) > max_history
       THEN LET trimmed == SubSeq(appended, 1, max_history)
            IN [history |-> trimmed, current_index |-> Len(trimmed) - 1,
                ret |-> None]
       ELSE [history |-> appended, current_index |-> idx, ret |-> None]

add_state(h, anns) ==
    LET truncated == SubSeq(h.history, 1, h.current_index + 1)
        appended == Append(truncated, deep_copy(anns))
        idx == h.current_index + 1
    IN IF Len(appended) > max_history
       THEN LET trimmed == LastN(appended, max_history)
            IN [history |-> trimmed, current_index |-> Len(trimmed) - 1,
                ret |-> None]
       ELSE [history |-> appended, current_index |-> idx, ret |-> None]

\* undo without the test of the cursor
undo_unguarded(h) ==
    [history |-> h.history, current_index |-> h.current_index - 1,
     ret |-> IF h.current_index > 0 THEN Some(h.history[h.current_index])
             ELSE None]

undo(h) ==
    IF h.current_index > 0
    THEN [history |-> h.history, current_index |-> h.current_index - 1,
          ret |-> Some(h.history[h.current_index])]
    ELSE [history |-> h.history, current_index |-> h.current_index,
          ret |-> None]

\* redo returning the snapshot the cursor was at
redo_returns_old(h) ==
    IF h.current_index < Len(h.history) - 1
    THEN [history |-> h.history, current_index |-> h.current_index + 1,
          ret |-> Some(h.history[h.current_index + 1])]
    ELSE [history |-> h.history, current_index |-> h.current_index,
          ret |-> None]

redo(h) ==
    IF h.current_index < Len(h.history) - 1
    THEN [history |-> h.history, current_index |-> h.current_index + 1,
          ret |-> Some(h.history[h.current_index + 2])]
    ELSE [history |-> h.history, current_index |-> h.current_index,
          ret |-> None]

can_undo(h) == h.current_index > 0

can_redo(h) == h.current_index < Len(h.history) - 1

clear(h) == [history |-> <<<<>>>>, current_index |-> 0, ret |-> None]

(***************************************************************************)
(* AnnotationHistory driven directly through its methods                   *)
(***************************************************************************)
\* the history object as it was before a call
NoState == [valid |-> FALSE]
StateBefore(h) == [valid |-> TRUE, history |-> h.history,
                   current_index |-> h.current_index]

\* the object after a call
SetHist(r) ==
    /\ history' = r.history
    /\ current_index' = r.current_index

\* what is recorded about a step: the operation, what undo()/redo() returned
\* to it, and the history object before it: recorded by an undo() that moved
\* the cursor, kept by the redo() that directly follows it, and recorded by
\* a direct add_state() call
Record(op, ret, bu) ==
    /\ hist_op' = op
    /\ hist_ret' = ret
    /\ before' = bu

AnnA == Annotation(AnnotationTool("PEN", Red, DefaultSize, DefaultOpacity),
                   <<Point(1, 1), Point(2, 2)>>, "")
AnnB == Annotation(AnnotationTool("RECTANGLE", Blue, DefaultSize,
                                  DefaultOpacity),
                   <<Point(0, 0), Point(5, 5)>>, "")
AnnC == Annotation(AnnotationTool("TEXT", Red, DefaultSize, DefaultOpacity),
                   <<Point(3, 3)>>, "note")
\* the annotation lists handed to add_state
AnnotationLists == {<<>>, <<AnnA>>, <<AnnA, AnnB>>, <<AnnA, AnnC>>}

H_add_state(anns) ==
    /\ SetHist(add_state(Hist, anns))
    /\ Record("add_state", None, StateBefore(Hist))
    /\ call_args' = Some([annotations |-> anns])
    /\ call_ret' = None
    /\ UNCHANGED <<cvars, ovars, avars, tvars, rvars>>

H_undo ==
    LET r == undo(Hist)
    IN /\ SetHist(r)
       /\ Record("undo", r.ret,
                 IF can_undo(Hist) THEN StateBefore(Hist) ELSE NoState)
       /\ UNCHANGED <<cvars, ovars, pvars, avars, tvars, rvars>>

H_redo ==
    LET r == redo(Hist)
    IN /\ SetHist(r)
       /\ Record("redo", r.ret,
                 IF hist_op = "undo" THEN before ELSE NoState)
       /\ UNCHANGED <<cvars, ovars, pvars, avars, tvars, rvars>>

H_clear ==
    /\ SetHist(clear(Hist))
    /\ Record("clear", None, NoState)
    /\ UNCHANGED <<cvars, ovars, pvars, avars, tvars, rvars>>

(***************************************************************************)
(* canvas.py: DrawingCanvas.  self.last_point is only ever written and is  *)
(* left out.                                                               *)
(***************************************************************************)
\* int(n / d) for d > 0: Python's int() truncates towards zero
TruncDiv(n, d) == IF n >= 0 THEN n \div d ELSE -((-n) \div d)

\* a fraction a is below a fraction b (denominators positive)
FracLess(a, b) == a.num * b.den < b.num * a.den
FracMin(a, b) == IF FracLess(b, a) THEN b ELSE a
One == [num |-> 1, den |-> 1]

\* _fit_to_window: [scale_factor, offset] for an image in a widget
fit_to_window(img, wsize) ==
    LET scale_x == [num |-> wsize.w, den |-> img.w]
        scale_y == [num |-> wsize.h, den |-> img.h]
        sf == FracMin(FracMin(scale_x, scale_y), One)
        \* int((widget - img * sf) / 2), all terms over the denominator sf.den
        off(wd, im) == TruncDiv(wd * sf.den - im * sf.num, 2 * sf.den)
    IN [scale_factor |-> sf,
        offset |-> Point(off(wsize.w, img.w), off(wsize.h, img.h))]

\* _screen_to_image
screen_to_image(pos) ==
    Point(TruncDiv((pos.x - offset.x) * scale_factor.den, scale_factor.num),
          TruncDiv((pos.y - offset.y) * scale_factor.den, scale_factor.num))

\* the images handed to set_image and the sizes the widget takes
ImageSizes == {[w |-> 800, h |-> 600]}
WidgetSizes == {[w |-> 400, h |-> 300], [w |-> 1000, h |-> 600]}
\* pointer positions on the canvas widget
CanvasPositions == {Point(140, 60)}
\* the tools the toolbar hands to set_tool (window.py:684-691)
CanvasToolTypes == {"PEN", "TEXT"}
\* the tools of gestures that end with the Eraser
EraserToolTypes == {"PEN", "ERASER"}
\* the tools of the else branch of mouseMoveEvent that start a gesture
ShapeTools == {"RECTANGLE", "CIRCLE", "ARROW"}
\* the tools and pointer positions of the drawing gestures
StrokeToolTypes == {"RECTANGLE", "ARROW", "PEN", "ERASER"}
StrokePositions == {Point(140, 60), Point(200, 100)}
\* what QInputDialog.getText returns: (text, ok)
DialogResults == {[text |-> "note", ok |-> TRUE], [text |-> "", ok |-> TRUE],
                  [text |-> "", ok |-> FALSE]}
Buttons == {"LeftButton", "RightButton"}

FreehandTools == {"PEN", "HIGHLIGHTER", "ERASER"}

\* the copy of self.current_tool an annotation is created with
ToolCopy == AnnotationTool(current_tool.tool_type, current_tool.color,
                           current_tool.size, current_tool.opacity)

HistUnchanged == UNCHANGED <<history, current_index>>

\* set_image emptying the working list without history.clear()
set_image_keeps_history(img) ==
    LET fit == fit_to_window(img, widget_size)
    IN /\ original_image' = Some(img)
       /\ annotations' = <<>>
       /\ HistUnchanged
       /\ Record("set_image", None, StateBefore(Hist))
       /\ scale_factor' = fit.scale_factor
       /\ offset' = fit.offset
       /\ modified' = FALSE
       /\ UNCHANGED <<current_annotation, current_tool, is_drawing,
                      widget_size, ovars, pvars, avars, tvars>>

set_image(img) ==
    LET fit == fit_to_window(img, widget_size)
    IN /\ original_image' = Some(img)
       /\ annotations' = <<>>
       /\ SetHist(clear(Hist))
       /\ Record("set_image", None, StateBefore(Hist))
       /\ scale_factor' = fit.scale_factor
       /\ offset' = fit.offset
       /\ modified' = FALSE
       /\ UNCHANGED <<current_annotation, current_tool, is_drawing,
                      widget_size, ovars, pvars, avars, tvars>>

set_tool(tool) ==
    /\ current_tool' = tool
    /\ Record("set_tool", None, NoState)
    /\ modified' = FALSE
    /\ HistUnchanged
    /\ UNCHANGED <<original_image, annotations, current_annotation,
                   is_drawing, widget_size, scale_factor, offset, ovars,
                   pvars, avars, tvars>>

\* a caller builds AnnotationTool(tool_type, color, size, opacity) and hands
\* it to set_tool, as EditorWindow._set_tool does (window.py:684-691)
ConstructAndSetTool(tool_type, color, size, opacity) ==
    /\ call_args' = Some([tool_type |-> tool_type, color |-> color,
                          size |-> size, opacity |-> opacity])
    /\ call_ret' = Some(AnnotationTool(tool_type, color, size, opacity))
    /\ current_tool' = AnnotationTool(tool_type, color, size, opacity)
    /\ Record("set_tool", None, NoState)
    /\ modified' = FALSE
    /\ HistUnchanged
    /\ UNCHANGED <<original_image, annotations, current_annotation,
                   is_drawing, widget_size, scale_factor, offset, ovars,
                   avars, tvars>>

\* resizeEvent moving the stored points with the image on the widget
resizeEvent_moves_points(wsize) ==
    LET fit == IF original_image = None
               THEN [scale_factor |-> scale_factor, offset |-> offset]
               ELSE fit_to_window(original_image.val, wsize)
        moved(a) == [a EXCEPT !.points =
                        [k \in DOMAIN a.points |->
                            Point(a.points[k].x + fit.offset.x - offset.x,
                                  a.points[k].y + fit.offset.y - offset.y)]]
    IN /\ widget_size' = wsize
       /\ scale_factor' = fit.scale_factor
       /\ offset' = fit.offset
       /\ annotations' = [k \in DOMAIN annotations |-> moved(annotations[k])]
       /\ Record("resizeEvent", None, NoState)
       /\ modified' = FALSE
       /\ HistUnchanged
       /\ UNCHANGED <<original_image, current_annotation,
                      current_tool, is_drawing, ovars, pvars, avars, tvars>>

resizeEvent(wsize) ==
    /\ widget_size' = wsize
    /\ IF original_image = None
       THEN UNCHANGED <<scale_factor, offset>>
       ELSE LET fit == fit_to_window(original_image.val, wsize)
            IN /\ scale_factor' = fit.scale_factor
               /\ offset' = fit.offset
    /\ Record("resizeEvent", None, NoState)
    /\ modified' = FALSE
    /\ HistUnchanged
    /\ UNCHANGED <<original_image, annotations, current_annotation,
                   current_tool, is_drawing, ovars, pvars, avars, tvars>>

\* mousePressEvent committing whatever text an accepted prompt returns
Canvas_mousePressEvent_accepts_empty_text(button, pos, dlg) ==
    /\ Record("mousePressEvent", None, NoState)
    /\ UNCHANGED <<original_image, current_tool, widget_size, scale_factor,
                   offset, ovars,
                   pvars, avars, tvars>>
    /\ IF button = "LeftButton" /\ original_image # None
       THEN LET p == screen_to_image(pos)
            IN IF current_tool.tool_type = "TEXT"
               THEN /\ is_drawing' = FALSE
                    /\ IF dlg.ok
                       THEN LET a == Annotation(ToolCopy, <<p>>, dlg.text)
                                anns == Append(annotations, a)
                            IN /\ annotations' = anns
                               /\ SetHist(add_state(Hist, anns))
                               /\ current_annotation' = None
                               /\ modified' = TRUE
                       ELSE /\ modified' = FALSE
                            /\ HistUnchanged
                            /\ UNCHANGED <<annotations, current_annotation>>
               ELSE /\ is_drawing' = TRUE
                    /\ current_annotation' =
                           Some(Annotation(ToolCopy, <<p>>, ""))
                    /\ modified' = FALSE
                    /\ HistUnchanged
                    /\ UNCHANGED annotations
       ELSE /\ modified' = FALSE
            /\ HistUnchanged
            /\ UNCHANGED <<annotations, current_annotation, is_drawing>>

Canvas_mousePressEvent(button, pos, dlg) ==
    /\ Record("mousePressEvent", None, NoState)
    /\ UNCHANGED <<original_image, current_tool, widget_size, scale_factor,
                   offset, ovars,
                   pvars, avars, tvars>>
    /\ IF button = "LeftButton" /\ original_image # None
       THEN LET p == screen_to_image(pos)
            IN IF current_tool.tool_type = "TEXT"
               THEN /\ is_drawing' = FALSE
                    /\ IF dlg.ok /\ dlg.text # ""
                       THEN LET a == Annotation(ToolCopy, <<p>>, dlg.text)
                                anns == Append(annotations, a)
                            IN /\ annotations' = anns
                               /\ SetHist(add_state(Hist, anns))
                               /\ current_annotation' = None
                               /\ modified' = TRUE
                       ELSE /\ modified' = FALSE
                            /\ HistUnchanged
                            /\ UNCHANGED <<annotations, current_annotation>>
               ELSE /\ is_drawing' = TRUE
                    /\ current_annotation' =
                           Some(Annotation(ToolCopy, <<p>>, ""))
                    /\ modified' = FALSE
                    /\ HistUnchanged
                    /\ UNCHANGED annotations
       ELSE /\ modified' = FALSE
            /\ HistUnchanged
            /\ UNCHANGED <<annotations, current_annotation, is_drawing>>

\* mouseMoveEvent taking a snapshot of the working list at every move
Canvas_mouseMoveEvent_snapshots(pos) ==
    /\ Record("mouseMoveEvent", None, NoState)
    /\ modified' = FALSE
    /\ SetHist(add_state(Hist, annotations))
    /\ UNCHANGED <<original_image, annotations, current_tool, is_drawing,
                   widget_size, scale_factor, offset, ovars,
                   pvars, avars, tvars>>
    /\ IF is_drawing /\ current_annotation # None /\ original_image # None
       THEN LET p == screen_to_image(pos)
                a == current_annotation.val
                pts == IF current_tool.tool_type \in FreehandTools
                       THEN Append(a.points, p)
                       ELSE IF Len(a.points) > 1
                            THEN [a.points EXCEPT ![Len(a.points)] = p]
                            ELSE Append(a.points, p)
            IN current_annotation' = Some([a EXCEPT !.points = pts])
       ELSE UNCHANGED current_annotation

Canvas_mouseMoveEvent(pos) ==
    /\ Record("mouseMoveEvent", None, NoState)
    /\ modified' = FALSE
    /\ HistUnchanged
    /\ UNCHANGED <<original_image, annotations, current_tool, is_drawing,
                   widget_size, scale_factor, offset, ovars,
                   pvars, avars, tvars>>
    /\ IF is_drawing /\ current_annotation # None /\ original_image # None
       THEN LET p == screen_to_image(pos)
                a == current_annotation.val
                pts == IF current_tool.tool_type \in FreehandTools
                       THEN Append(a.points, p)
                       ELSE IF Len(a.points) > 1
                            THEN [a.points EXCEPT ![Len(a.points)] = p]
                            ELSE Append(a.points, p)
            IN current_annotation' = Some([a EXCEPT !.points = pts])
       ELSE UNCHANGED current_annotation

\* mouseReleaseEvent with an Eraser that takes the last annotation away
Canvas_mouseReleaseEvent_eraser_removes(button) ==
    /\ Record("mouseReleaseEvent", None, NoState)
    /\ UNCHANGED <<original_image, current_tool, widget_size, scale_factor,
                   offset, ovars,
                   pvars, avars, tvars>>
    /\ IF button = "LeftButton" /\ is_drawing
       THEN /\ is_drawing' = FALSE
            /\ current_annotation' = None
            /\ IF current_annotation # None
                  /\ Len(current_annotation.val.points) > 0
               THEN LET anns == IF current_annotation.val.tool.tool_type = "ERASER"
                                THEN SubSeq(annotations, 1,
                                            Len(annotations) - 1)
                                ELSE Append(annotations,
                                            current_annotation.val)
                    IN /\ annotations' = anns
                       /\ SetHist(add_state(Hist, anns))
                       /\ modified' = TRUE
               ELSE /\ modified' = FALSE
                    /\ HistUnchanged
                    /\ UNCHANGED annotations
       ELSE /\ modified' = FALSE
            /\ HistUnchanged
            /\ UNCHANGED <<annotations, current_annotation, is_drawing>>

\* mouseReleaseEvent appending the annotation without history.add_state
Canvas_mouseReleaseEvent_no_snapshot(button) ==
    /\ Record("mouseReleaseEvent", None, NoState)
    /\ UNCHANGED <<original_image, current_tool, widget_size, scale_factor,
                   offset, ovars,
                   pvars, avars, tvars>>
    /\ IF button = "LeftButton" /\ is_drawing
       THEN /\ is_drawing' = FALSE
            /\ current_annotation' = None
            /\ IF current_annotation # None
                  /\ Len(current_annotation.val.points) > 0
               THEN LET anns == Append(annotations, current_annotation.val)
                    IN /\ annotations' = anns
                       /\ HistUnchanged
                       /\ modified' = TRUE
               ELSE /\ modified' = FALSE
                    /\ HistUnchanged
                    /\ UNCHANGED annotations
       ELSE /\ modified' = FALSE
            /\ HistUnchanged
            /\ UNCHANGED <<annotations, current_annotation, is_drawing>>

Canvas_mouseReleaseEvent(button) ==
    /\ Record("mouseReleaseEvent", None, NoState)
    /\ UNCHANGED <<original_image, current_tool, widget_size, scale_factor,
                   offset, ovars,
                   pvars, avars, tvars>>
    /\ IF button = "LeftButton" /\ is_drawing
       THEN /\ is_drawing' = FALSE
            /\ current_annotation' = None
            /\ IF current_annotation # None
                  /\ Len(current_annotation.val.points) > 0
               THEN LET anns == Append(annotations, current_annotation.val)
                    IN /\ annotations' = anns
                       /\ SetHist(add_state(Hist, anns))
                       /\ modified' = TRUE
               ELSE /\ modified' = FALSE
                    /\ HistUnchanged
                    /\ UNCHANGED annotations
       ELSE /\ modified' = FALSE
            /\ HistUnchanged
            /\ UNCHANGED <<annotations, current_annotation, is_drawing>>

\* DrawingCanvas.undo taking the returned state without the None test
Canvas_undo_no_none_test ==
    LET r == undo(Hist)
    IN /\ SetHist(r)
       /\ Record("undo", r.ret,
                 IF can_undo(Hist) THEN StateBefore(Hist) ELSE NoState)
       /\ annotations' = IF r.ret # None THEN r.ret.val ELSE <<>>
       /\ modified' = TRUE
       /\ UNCHANGED <<original_image, current_annotation, current_tool,
                      is_drawing, widget_size, scale_factor, offset, ovars,
                   pvars, avars, tvars>>

Canvas_undo ==
    LET r == undo(Hist)
    IN /\ SetHist(r)
       /\ Record("undo", r.ret,
                 IF can_undo(Hist) THEN StateBefore(Hist) ELSE NoState)
       /\ annotations' = IF r.ret # None THEN r.ret.val ELSE annotations
       /\ modified' = (r.ret # None)
       /\ UNCHANGED <<original_image, current_annotation, current_tool,
                      is_drawing, widget_size, scale_factor, offset, ovars,
                   pvars, avars, tvars>>

\* DrawingCanvas.redo moving the cursor without taking the returned state
Canvas_redo_keeps_working_list ==
    LET r == redo(Hist)
    IN /\ SetHist(r)
       /\ Record("redo", r.ret,
                 IF hist_op = "undo" THEN before ELSE NoState)
       /\ annotations' = annotations
       /\ modified' = (r.ret # None)
       /\ UNCHANGED <<original_image, current_annotation, current_tool,
                      is_drawing, widget_size, scale_factor, offset, ovars,
                   pvars, avars, tvars>>

Canvas_redo ==
    LET r == redo(Hist)
    IN /\ SetHist(r)
       /\ Record("redo", r.ret,
                 IF hist_op = "undo" THEN before ELSE NoState)
       /\ annotations' = IF r.ret # None THEN r.ret.val ELSE annotations
       /\ modified' = (r.ret # None)
       /\ UNCHANGED <<original_image, current_annotation, current_tool,
                      is_drawing, widget_size, scale_factor, offset, ovars,
                   pvars, avars, tvars>>

\* clear_annotations resetting the history instead of pushing a snapshot
clear_annotations_resets_history ==
    /\ Record("clear_annotations", None, NoState)
    /\ UNCHANGED <<original_image, current_annotation, current_tool,
                   is_drawing, widget_size, scale_factor, offset, ovars,
                   pvars, avars, tvars>>
    /\ IF annotations # <<>>
       THEN /\ annotations' = <<>>
            /\ SetHist(clear(Hist))
            /\ modified' = TRUE
       ELSE /\ modified' = FALSE
            /\ HistUnchanged
            /\ UNCHANGED annotations

clear_annotations ==
    /\ Record("clear_annotations", None, NoState)
    /\ UNCHANGED <<original_image, current_annotation, current_tool,
                   is_drawing, widget_size, scale_factor, offset, ovars,
                   pvars, avars, tvars>>
    /\ IF annotations # <<>>
       THEN /\ annotations' = <<>>
            /\ SetHist(add_state(Hist, <<>>))
            /\ modified' = TRUE
       ELSE /\ modified' = FALSE
            /\ HistUnchanged
            /\ UNCHANGED annotations

(***************************************************************************)
(* canvas.py and tools.py at the level of objects.  A Python list is an    *)
(* object of list_heap holding the ids of Annotation objects of ann_heap;  *)
(* append and item assignment change the object in place, list(x) and a    *)
(* list comprehension create a new list.  The Ref_ operators are the       *)
(* handlers' statements on these objects; each runs together with the      *)
(* handler above, which gives the same statements on values.  A QPoint and *)
(* a QColor are never changed in place and stay values.                    *)
(***************************************************************************)
\* the Annotation values a list object holds, in the heap (lh, ah)
DerefIn(lh, ah, l) == [i \in 1..Len(lh[l]) |-> ah[lh[l][i]]]
Deref(l) == DerefIn(list_heap, ann_heap, l)

\* self.history.add_state(self.annotations) in the heap (lh, ah): the
\* comprehension creates an Annotation for each one of the working list wl,
\* and a list of them, which is appended to the truncated self.history
RefAddState(lh, ah, wl) ==
    LET copies == deep_copy(DerefIn(lh, ah, wl))
        new_state == [i \in 1..Len(copies) |-> Len(ah) + i]
        lh2 == Append(lh, new_state)
        appended == Append(SubSeq(history_ref, 1, current_index + 1),
                           Len(lh2))
    IN [list_heap |-> lh2, ann_heap |-> ah \o copies,
        history_ref |-> IF Len(appended) > max_history
                        THEN LastN(appended, max_history) ELSE appended]

SetHeap(r) ==
    /\ list_heap' = r.list_heap
    /\ ann_heap' = r.ann_heap
    /\ history_ref' = r.history_ref

\* set_image: self.annotations = [] and history.clear(), two new lists
Ref_set_image ==
    /\ list_heap' = list_heap \o << <<>>, <<>> >>
    /\ annotations_ref' = Len(list_heap) + 1
    /\ history_ref' = <<Len(list_heap) + 2>>
    /\ UNCHANGED <<ann_heap, current_annotation_ref>>

Ref_mousePressEvent(button, pos, dlg) ==
    IF button = "LeftButton" /\ original_image # None
    THEN LET a == Annotation(ToolCopy, <<screen_to_image(pos)>>,
                             IF current_tool.tool_type = "TEXT"
                             THEN dlg.text ELSE "")
             id == Len(ann_heap) + 1
         IN IF current_tool.tool_type = "TEXT"
            THEN IF dlg.ok /\ dlg.text # ""
                 THEN \* self.annotations.append(self.current_annotation)
                      LET lh == [list_heap EXCEPT ![annotations_ref] =
                                     Append(@, id)]
                      IN /\ SetHeap(RefAddState(lh, Append(ann_heap, a),
                                                annotations_ref))
                         /\ current_annotation_ref' = None
                         /\ UNCHANGED annotations_ref
                 ELSE UNCHANGED rvars
            ELSE /\ ann_heap' = Append(ann_heap, a)
                 /\ current_annotation_ref' = Some(id)
                 /\ UNCHANGED <<list_heap, history_ref, annotations_ref>>
    ELSE UNCHANGED rvars

Ref_mouseMoveEvent(pos) ==
    IF is_drawing /\ current_annotation_ref # None /\ original_image # None
    THEN LET p == screen_to_image(pos)
             id == current_annotation_ref.val
             pts == ann_heap[id].points
             \* points.append(pos) or points[-1] = pos, in place
             pts2 == IF current_tool.tool_type \in FreehandTools
                     THEN Append(pts, p)
                     ELSE IF Len(pts) > 1
                          THEN [pts EXCEPT ![Len(pts)] = p]
                          ELSE Append(pts, p)
         IN /\ ann_heap' = [ann_heap EXCEPT ![id].points = pts2]
            /\ UNCHANGED <<list_heap, history_ref, annotations_ref,
                           current_annotation_ref>>
    ELSE UNCHANGED rvars

Ref_mouseReleaseEvent(button) ==
    IF button = "LeftButton" /\ is_drawing
    THEN /\ current_annotation_ref' = None
         /\ UNCHANGED annotations_ref
         /\ IF current_annotation_ref # None
               /\ Len(ann_heap[current_annotation_ref.val].points) > 0
            THEN \* self.annotations.append(self.current_annotation)
                 LET lh == [list_heap EXCEPT ![annotations_ref] =
                                Append(@, current_annotation_ref.val)]
                 IN SetHeap(RefAddState(lh, ann_heap, annotations_ref))
            ELSE UNCHANGED <<list_heap, ann_heap, history_ref>>
    ELSE UNCHANGED rvars

\* DrawingCanvas.undo keeping the list undo() returned as self.annotations
Ref_undo_no_copy ==
    IF current_index > 0
    THEN /\ annotations_ref' = history_ref[current_index]
         /\ UNCHANGED <<list_heap, ann_heap, history_ref,
                        current_annotation_ref>>
    ELSE UNCHANGED rvars

\* DrawingCanvas.undo: undo() returns the list self.history[current_index]
\* itself; self.annotations = list(state) is a new list of the same objects
Ref_undo ==
    IF current_index > 0
    THEN /\ list_heap' = Append(list_heap,
                                list_heap[history_ref[current_index]])
         /\ annotations_ref' = Len(list_heap) + 1
         /\ UNCHANGED <<ann_heap, history_ref, current_annotation_ref>>
    ELSE UNCHANGED rvars

Ref_redo ==
    IF current_index < Len(history_ref) - 1
    THEN /\ list_heap' = Append(list_heap,
                                list_heap[history_ref[current_index + 2]])
         /\ annotations_ref' = Len(list_heap) + 1
         /\ UNCHANGED <<ann_heap, history_ref, current_annotation_ref>>
    ELSE UNCHANGED rvars

Ref_clear_annotations ==
    IF list_heap[annotations_ref] # <<>>
    THEN \* self.annotations = []
         LET lh == Append(list_heap, <<>>)
         IN /\ annotations_ref' = Len(lh)
            /\ SetHeap(RefAddState(lh, ann_heap, Len(lh)))
            /\ UNCHANGED current_annotation_ref
    ELSE UNCHANGED rvars

\* the heap has room for nl more lists and na more Annotation objects
HeapRoom(nl, na) ==
    /\ Len(list_heap) + nl <= MaxHeapLists
    /\ Len(ann_heap) + na <= MaxHeapAnns

(***************************************************************************)
(* Qt value types used by the overlay.  A QRect is its two corners         *)
(* (x1, y1), (x2, y2), both inclusive, as Qt 5 stores it.                  *)
(***************************************************************************)
\* QRect(QPoint topLeft, QPoint bottomRight)
QRect(p1, p2) == [x1 |-> p1.x, y1 |-> p1.y, x2 |-> p2.x, y2 |-> p2.y]
\* QRect(int x, int y, int width, int height)
QRectXYWH(x, y, w, h) == [x1 |-> x, y1 |-> y, x2 |-> x + w - 1,
                          y2 |-> y + h - 1]
RectWidth(r) == r.x2 - r.x1 + 1
RectHeight(r) == r.y2 - r.y1 + 1
\* QRect::isValid(), which is QRect.__bool__ in PyQt5
RectIsValid(r) == r.x1 <= r.x2 /\ r.y1 <= r.y2
\* normalized() leaving the corners in press/release order
normalized_no_swap(r) == r

\* QRect::normalized() of Qt 5: corners are swapped when the size is negative
normalized(r) ==
    LET swapx == r.x2 < r.x1 - 1
        swapy == r.y2 < r.y1 - 1
    IN [x1 |-> IF swapx THEN r.x2 ELSE r.x1,
        x2 |-> IF swapx THEN r.x1 ELSE r.x2,
        y1 |-> IF swapy THEN r.y2 ELSE r.y1,
        y2 |-> IF swapy THEN r.y1 ELSE r.y2]
\* QPoint::isNull(); QPoint.__bool__ in PyQt5 is its negation
PointIsNull(p) == p.x = 0 /\ p.y = 0
\* Python truth of an Optional[QPoint]: None and QPoint(0, 0) are false
PointTruthy(op) == op # None /\ ~PointIsNull(op.val)

Min(S) == CHOOSE m \in S : \A n \in S : m <= n
Max(S) == CHOOSE m \in S : \A n \in S : m >= n
Range(f) == {f[i] : i \in DOMAIN f}

\* a bounding rectangle whose far corner is left out of the size
boundingRect_exclusive(pts) ==
    [x1 |-> Min({q.x : q \in Range(pts)}), y1 |-> Min({q.y : q \in Range(pts)}),
     x2 |-> Max({q.x : q \in Range(pts)}) - 1,
     y2 |-> Max({q.y : q \in Range(pts)}) - 1]

\* QPolygon::boundingRect() of a non-empty polygon
boundingRect(pts) ==
    [x1 |-> Min({q.x : q \in Range(pts)}), y1 |-> Min({q.y : q \in Range(pts)}),
     x2 |-> Max({q.x : q \in Range(pts)}), y2 |-> Max({q.y : q \in Range(pts)})]

(***************************************************************************)
(* selector.py: monitors                                                   *)
(***************************************************************************)
Monitor(l, t, w, h) == [left |-> l, top |-> t, width |-> w, height |-> h,
                        right |-> l + w, bottom |-> t + h]

\* what EnumDisplayMonitors reports: nothing, one display, two displays with
\* the second to the left of the primary one
Topologies == {<<>>,
               <<Monitor(0, 0, 1920, 1080)>>,
               <<Monitor(0, 0, 1920, 1080), Monitor(-1280, 0, 1280, 1024)>>}

\* get_virtual_screen_bounds falling back to an empty screen
get_virtual_screen_bounds_empty_fallback(mons) ==
    IF mons = <<>>
    THEN [left |-> 0, top |-> 0, width |-> 0, height |-> 0]
    ELSE LET min_left == Min({m.left : m \in Range(mons)})
             min_top == Min({m.top : m \in Range(mons)})
             max_right == Max({m.right : m \in Range(mons)})
             max_bottom == Max({m.bottom : m \in Range(mons)})
         IN [left |-> min_left, top |-> min_top,
             width |-> max_right - min_left, height |-> max_bottom - min_top,
             right |-> max_right, bottom |-> max_bottom]

\* get_virtual_screen_bounds taking the far edges as the size
get_virtual_screen_bounds_size_from_zero(mons) ==
    IF mons = <<>>
    THEN [left |-> 0, top |-> 0, width |-> 1920, height |-> 1080]
    ELSE LET min_left == Min({m.left : m \in Range(mons)})
             min_top == Min({m.top : m \in Range(mons)})
             max_right == Max({m.right : m \in Range(mons)})
             max_bottom == Max({m.bottom : m \in Range(mons)})
         IN [left |-> min_left, top |-> min_top,
             width |-> max_right, height |-> max_bottom,
             right |-> max_right, bottom |-> max_bottom]

get_virtual_screen_bounds(mons) ==
    IF mons = <<>>
    THEN [left |-> 0, top |-> 0, width |-> 1920, height |-> 1080]
    ELSE LET min_left == Min({m.left : m \in Range(mons)})
             min_top == Min({m.top : m \in Range(mons)})
             max_right == Max({m.right : m \in Range(mons)})
             max_bottom == Max({m.bottom : m \in Range(mons)})
         IN [left |-> min_left, top |-> min_top,
             width |-> max_right - min_left, height |-> max_bottom - min_top,
             right |-> max_right, bottom |-> max_bottom]

\* self.target_monitor as __init__ resolves it
target_monitor(mons, idx) ==
    IF idx # None /\ 0 <= idx.val /\ idx.val < Len(mons)
    THEN Some(mons[idx.val + 1]) ELSE None

\* (overlay_offset_x, overlay_offset_y) as _setup_ui sets them
setup_ui_offset(mons, idx) ==
    LET tm == target_monitor(mons, idx)
        vb == get_virtual_screen_bounds(mons)
    IN IF tm # None THEN Point(tm.val.left, tm.val.top)
       ELSE Point(vb.left, vb.top)

(***************************************************************************)
(* selector.py: SelectionOverlay                                           *)
(***************************************************************************)
CaptureMode == {"RECTANGULAR", "FREEFORM", "WINDOW", "FULLSCREEN"}
\* pointer positions in the overlay's local coordinates
Positions == {Point(0, 0), Point(3, 3), Point(4, 4), Point(10, 0),
              Point(10, 10), Point(50, 50), Point(100, 100)}
\* GetAncestor(WindowFromPoint(cursor)): no window, or one of two windows
Hwnds == {0, 101, 102}
\* GetWindowRect of each: window 102 is gone by the time GetWindowRect is
\* called, the call fails and the RECT stays zero, an empty rectangle
WindowRectOf(hwnd) ==
    IF hwnd = 101 THEN QRectXYWH(100, 50, 300, 200) ELSE QRectXYWH(0, 0, 0, 0)
Keys == {"Key_Escape", "Key_Return"}
TargetIndexes == {None, Some(0), Some(1)}

\* QWidget.hide(): the widget is no longer visible; the screen still shows it
\* until the event loop has processed the hide
hide(d) == [d EXCEPT !.visible = FALSE]
\* QApplication.processEvents(), and every return to the event loop
processEvents(d) == [d EXCEPT !.on_screen = d.visible]

\* the capture paths with processEvents() left out
HideAndProcessEvents_no_process(d) == hide(d)

\* self.hide(); QApplication.processEvents() of the four capture paths
HideAndProcessEvents(d) == processEvents(hide(d))

Cancelled == [signal |-> "selection_cancelled", image |-> None]
Complete(img) == [signal |-> "selection_complete", image |-> img]
Image(w, h, alpha) == [w |-> w, h |-> h, alpha |-> alpha]
\* Image.new('L', (w, h), 0) with draw.polygon(points, fill=255)
Mask(w, h, points) == [w |-> w, h |-> h, polygon |-> points]

\* one ScreenCapture call and what it returned (None when it raised), with
\* what the display showed when it was made
Call(name, args, ret, d) ==
    [call |-> name, args |-> args, ret |-> ret,
     overlay_visible |-> d.visible,
     overlay_on_screen |-> d.on_screen, after_escape |-> escaped,
     after_outcome |-> emitted # <<>>]

\* self.close(): closeEvent closes the ScreenCapture, then the widget hides
CloseOverlay(d) ==
    /\ disp' = processEvents(hide(d))
    /\ sct_closed' = TRUE

\* self.selection_cancelled.emit(); self.close(); return
EmitCancelled ==
    /\ emitted' = Append(emitted, Cancelled)
    /\ CloseOverlay(disp)
    /\ UNCHANGED <<captures, crashed>>

\* capture_region(x, y, w, h) and the rest of a completed capture
CompleteRegion(x, y, w, h, alpha) ==
    LET d1 == HideAndProcessEvents(disp)
    IN /\ captures' = Append(captures,
                             Call("capture_region", <<x, y, w, h>>,
                                  Some(Image(w, h, None)), d1))
       /\ emitted' = Append(emitted, Complete(Some(Image(w, h, alpha))))
       /\ CloseOverlay(d1)
       /\ UNCHANGED crashed

\* _capture_rectangular without the size check
capture_rectangular_no_size_check(sp, ep) ==
    IF ~PointTruthy(sp) \/ ~PointTruthy(ep)
    THEN EmitCancelled
    ELSE LET rect == normalized(QRect(sp.val, ep.val))
         IN CompleteRegion(rect.x1 + overlay_offset.x,
                           rect.y1 + overlay_offset.y,
                           RectWidth(rect), RectHeight(rect), None)

\* _capture_rectangular, with self.start_point = sp and self.end_point = ep
capture_rectangular(sp, ep) ==
    IF ~PointTruthy(sp) \/ ~PointTruthy(ep)
    THEN EmitCancelled
    ELSE LET rect == normalized(QRect(sp.val, ep.val))
         IN IF RectWidth(rect) < 5 \/ RectHeight(rect) < 5
            THEN EmitCancelled
            ELSE CompleteRegion(rect.x1 + overlay_offset.x,
                                rect.y1 + overlay_offset.y,
                                RectWidth(rect), RectHeight(rect), None)

\* _capture_freeform accepting a path of two points
capture_freeform_two_points(pts) ==
    IF Len(pts) < 2
    THEN EmitCancelled
    ELSE LET rect == boundingRect(pts)
         IN IF RectWidth(rect) < 5 \/ RectHeight(rect) < 5
            THEN EmitCancelled
            ELSE CompleteRegion(rect.x1 + overlay_offset.x,
                                rect.y1 + overlay_offset.y,
                                RectWidth(rect), RectHeight(rect), None)

\* _capture_freeform drawing the mask from the untranslated path points
capture_freeform_mask_untranslated(pts) ==
    IF Len(pts) < 3
    THEN EmitCancelled
    ELSE LET rect == boundingRect(pts)
         IN IF RectWidth(rect) < 5 \/ RectHeight(rect) < 5
            THEN EmitCancelled
            ELSE CompleteRegion(rect.x1 + overlay_offset.x,
                                rect.y1 + overlay_offset.y,
                                RectWidth(rect), RectHeight(rect),
                                Some(Mask(RectWidth(rect), RectHeight(rect),
                                          pts)))

\* _capture_freeform, with self.freeform_points = pts
capture_freeform(pts) ==
    IF Len(pts) < 3
    THEN EmitCancelled
    ELSE LET rect == boundingRect(pts)
             local_points == [i \in 1..Len(pts) |->
                                 Point(pts[i].x - rect.x1, pts[i].y - rect.y1)]
         IN IF RectWidth(rect) < 5 \/ RectHeight(rect) < 5
            THEN EmitCancelled
            ELSE CompleteRegion(rect.x1 + overlay_offset.x,
                                rect.y1 + overlay_offset.y,
                                RectWidth(rect), RectHeight(rect),
                                Some(Mask(RectWidth(rect), RectHeight(rect),
                                          local_points)))

\* _capture_window_at_cursor emitting selection_complete whatever
\* capture_window returned
capture_window_at_cursor_no_image_test(now) ==
    IF hovered_window = None \/ hovered_window.val = 0
       \/ window_rect = None \/ ~RectIsValid(window_rect.val)
    THEN EmitCancelled
    ELSE LET d1 == HideAndProcessEvents(disp)
             w == RectWidth(now)
             h == RectHeight(now)
             image == IF w <= 0 \/ h <= 0 THEN None
                      ELSE Some(Image(w, h, None))
         IN /\ captures' = Append(captures,
                                  Call("capture_window",
                                       <<hovered_window.val>>, image, d1))
            /\ emitted' = Append(emitted, Complete(image))
            /\ CloseOverlay(d1)
            /\ UNCHANGED crashed

\* _capture_window_at_cursor; now is what GetWindowRect reports inside
\* ScreenCapture.capture_window (screen.py:46-69)
capture_window_at_cursor(now) ==
    IF hovered_window = None \/ hovered_window.val = 0
       \/ window_rect = None \/ ~RectIsValid(window_rect.val)
    THEN EmitCancelled
    ELSE LET d1 == HideAndProcessEvents(disp)
             w == RectWidth(now)
             h == RectHeight(now)
             image == IF w <= 0 \/ h <= 0 THEN None
                      ELSE Some(Image(w, h, None))
         IN /\ captures' = Append(captures,
                                  Call("capture_window",
                                       <<hovered_window.val>>, image, d1))
            /\ emitted' = Append(emitted, IF image # None THEN Complete(image)
                                          ELSE Cancelled)
            /\ CloseOverlay(d1)
            /\ UNCHANGED crashed

\* _capture_fullscreen passing the 0-based target index to mss unshifted
capture_fullscreen_unshifted(raises) ==
    LET d1 == HideAndProcessEvents(disp)
        monitor_idx == IF target_monitor_index # None
                       THEN target_monitor_index.val ELSE 1
        failed == raises \/ monitor_idx > Len(monitors) \/ monitor_idx < 1
        image == IF failed THEN None
                 ELSE Some(Image(monitors[monitor_idx].width,
                                 monitors[monitor_idx].height, None))
    IN /\ captures' = Append(captures,
                             Call("capture_fullscreen", <<monitor_idx>>,
                                  image, d1))
       /\ IF failed
          THEN /\ crashed' = TRUE
               /\ disp' = d1
               /\ UNCHANGED <<emitted, sct_closed>>
          ELSE /\ emitted' = Append(emitted, Complete(image))
               /\ CloseOverlay(d1)
               /\ UNCHANGED crashed

\* self.sct.monitors[1:], the displays as mss enumerates them: the displays
\* the overlay enumerated, and the one display of the session when the
\* overlay's own enumeration yielded nothing
mss_monitors(mons) ==
    IF mons = <<>> THEN <<Monitor(0, 0, 1920, 1080)>> ELSE mons

\* _capture_fullscreen, the slot of the single-shot timer.  mss.monitors is
\* [all, 1st, 2nd, ...]: an index past it raises IndexError, and a grab on a
\* closed ScreenCapture may raise (raises); the exception leaves the slot.
capture_fullscreen(raises) ==
    LET d1 == HideAndProcessEvents(disp)
        monitor_idx == IF target_monitor_index # None
                       THEN target_monitor_index.val + 1 ELSE 1
        failed == raises \/ monitor_idx > Len(mss_monitors(monitors))
        mon == mss_monitors(monitors)[monitor_idx]
        image == IF failed THEN None
                 ELSE Some(Image(mon.width, mon.height, None))
    IN /\ captures' = Append(captures,
                             Call("capture_fullscreen", <<monitor_idx>>,
                                  image, d1))
       /\ IF failed
          THEN /\ crashed' = TRUE
               /\ disp' = d1
               /\ UNCHANGED <<emitted, sct_closed>>
          ELSE /\ emitted' = Append(emitted, Complete(image))
               /\ CloseOverlay(d1)
               /\ UNCHANGED crashed

\* the overlay's own fields an event handler leaves alone
ConfigUnchanged == UNCHANGED <<mode, monitors, target_monitor_index,
                               overlay_offset>>
OutcomeUnchanged == UNCHANGED <<disp, sct_closed, emitted, captures, crashed>>

\* events reach the widget only while it is visible
Delivered == disp.visible /\ ~crashed

showEvent ==
    /\ ~disp.shown
    /\ disp' = [shown |-> TRUE, visible |-> TRUE, on_screen |-> TRUE]
    /\ timer_pending' = (mode = "FULLSCREEN")
    /\ last_event' = "show"
    /\ ConfigUnchanged
    /\ UNCHANGED <<start_point, end_point, freeform_points, is_selecting,
                   selection_rect, hovered_window, window_rect, sct_closed,
                   emitted, captures, escaped, crashed, hvars, cvars, pvars, avars, tvars, rvars>>

\* the single-shot timer of showEvent fires
TimerFires(raises) ==
    /\ timer_pending
    /\ ~crashed
    /\ timer_pending' = FALSE
    /\ capture_fullscreen(raises)
    /\ last_event' = "timer"
    /\ ConfigUnchanged
    /\ UNCHANGED <<start_point, end_point, freeform_points, is_selecting,
                   selection_rect, hovered_window, window_rect, escaped,
                   hvars, cvars, pvars, avars, tvars, rvars>>

Overlay_mousePressEvent(button, pos, now) ==
    /\ Delivered
    /\ last_event' = "press"
    /\ ConfigUnchanged
    /\ UNCHANGED <<end_point, hovered_window, window_rect, timer_pending,
                   escaped, hvars, cvars, pvars, avars, tvars, rvars>>
    /\ IF button = "LeftButton"
       THEN /\ start_point' = Some(pos)
            /\ is_selecting' = TRUE
            /\ selection_rect' = IF mode = "RECTANGULAR"
                                 THEN Some(QRect(pos, pos))
                                 ELSE selection_rect
            /\ freeform_points' = IF mode = "FREEFORM" THEN <<pos>>
                                  ELSE freeform_points
            /\ IF mode = "WINDOW" THEN capture_window_at_cursor(now)
               ELSE OutcomeUnchanged
       ELSE /\ UNCHANGED <<start_point, is_selecting, selection_rect,
                           freeform_points>>
            /\ OutcomeUnchanged

\* _update_hovered_window; hwnd is the top-level window under the cursor
update_hovered_window(hwnd) ==
    IF Some(hwnd) # hovered_window
    THEN /\ hovered_window' = Some(hwnd)
         /\ window_rect' = Some(WindowRectOf(hwnd))
    ELSE UNCHANGED <<hovered_window, window_rect>>

\* mouseMoveEvent leaving out a point equal to the last one of the path
Overlay_mouseMoveEvent_skips_repeats(pos, hwnd) ==
    /\ Delivered
    /\ last_event' = "move"
    /\ ConfigUnchanged
    /\ OutcomeUnchanged
    /\ UNCHANGED <<start_point, is_selecting, timer_pending, escaped,
                   hvars, cvars, pvars, avars, tvars, rvars>>
    /\ IF mode = "RECTANGULAR" /\ is_selecting
       THEN /\ end_point' = Some(pos)
            /\ selection_rect' = Some(normalized(QRect(start_point.val, pos)))
            /\ UNCHANGED <<freeform_points, hovered_window, window_rect>>
       ELSE IF mode = "FREEFORM" /\ is_selecting
       THEN /\ freeform_points' =
                   IF freeform_points # <<>>
                      /\ freeform_points[Len(freeform_points)] = pos
                   THEN freeform_points
                   ELSE Append(freeform_points, pos)
            /\ UNCHANGED <<end_point, selection_rect, hovered_window,
                           window_rect>>
       ELSE IF mode = "WINDOW"
       THEN /\ update_hovered_window(hwnd)
            /\ UNCHANGED <<end_point, selection_rect, freeform_points>>
       ELSE UNCHANGED <<end_point, selection_rect, freeform_points,
                        hovered_window, window_rect>>

Overlay_mouseMoveEvent(pos, hwnd) ==
    /\ Delivered
    /\ last_event' = "move"
    /\ ConfigUnchanged
    /\ OutcomeUnchanged
    /\ UNCHANGED <<start_point, is_selecting, timer_pending, escaped,
                   hvars, cvars, pvars, avars, tvars, rvars>>
    /\ IF mode = "RECTANGULAR" /\ is_selecting
       THEN /\ end_point' = Some(pos)
            /\ selection_rect' = Some(normalized(QRect(start_point.val, pos)))
            /\ UNCHANGED <<freeform_points, hovered_window, window_rect>>
       ELSE IF mode = "FREEFORM" /\ is_selecting
       THEN /\ freeform_points' = Append(freeform_points, pos)
            /\ UNCHANGED <<end_point, selection_rect, hovered_window,
                           window_rect>>
       ELSE IF mode = "WINDOW"
       THEN /\ update_hovered_window(hwnd)
            /\ UNCHANGED <<end_point, selection_rect, freeform_points>>
       ELSE UNCHANGED <<end_point, selection_rect, freeform_points,
                        hovered_window, window_rect>>

Overlay_mouseReleaseEvent(button, pos) ==
    /\ Delivered
    /\ last_event' = "release"
    /\ ConfigUnchanged
    /\ UNCHANGED <<start_point, freeform_points, selection_rect,
                   hovered_window, window_rect, timer_pending, escaped,
                   hvars, cvars, pvars, avars, tvars, rvars>>
    /\ IF button = "LeftButton" /\ is_selecting
       THEN /\ is_selecting' = FALSE
            /\ end_point' = Some(pos)
            /\ IF mode = "RECTANGULAR"
               THEN capture_rectangular(start_point, Some(pos))
               ELSE IF mode = "FREEFORM"
               THEN capture_freeform(freeform_points)
               ELSE OutcomeUnchanged
       ELSE /\ UNCHANGED <<is_selecting, end_point>>
            /\ OutcomeUnchanged

\* mouseReleaseEvent of a freeform drag that passes the checks of
\* _capture_freeform, when an exception leaves the compositing of the mask
\* (selector.py:477-488, which no try encloses): the region has been
\* captured, the exception leaves the slot and nothing is emitted
Overlay_mouseReleaseEvent_compositing_raises(pos) ==
    LET rect == boundingRect(freeform_points)
        d1 == HideAndProcessEvents(disp)
    IN /\ Delivered
       /\ mode = "FREEFORM"
       /\ is_selecting
       /\ Len(freeform_points) >= 3
       /\ RectWidth(rect) >= 5
       /\ RectHeight(rect) >= 5
       /\ last_event' = "release"
       /\ is_selecting' = FALSE
       /\ end_point' = Some(pos)
       /\ captures' = Append(captures,
                             Call("capture_region",
                                  <<rect.x1 + overlay_offset.x,
                                    rect.y1 + overlay_offset.y,
                                    RectWidth(rect), RectHeight(rect)>>,
                                  Some(Image(RectWidth(rect), RectHeight(rect),
                                             None)), d1))
       /\ crashed' = TRUE
       /\ disp' = d1
       /\ ConfigUnchanged
       /\ UNCHANGED <<emitted, sct_closed, start_point, freeform_points,
                      selection_rect, hovered_window, window_rect,
                      timer_pending, escaped, hvars, cvars, pvars, avars,
                      tvars, rvars>>

\* The owner's slot of selection_cancelled drops its reference to the overlay
\* (BretClipApp._on_capture_cancelled): the overlay object is destroyed and a
\* single-shot timer still armed on it never calls its slot.  An owner that
\* keeps the reference (test_capture.py holds it in a module global) never
\* takes this step.
ReleaseOverlay ==
    /\ emitted # <<>>
    /\ emitted[Len(emitted)] = Cancelled
    /\ timer_pending' = FALSE
    /\ last_event' = "released"
    /\ ConfigUnchanged
    /\ OutcomeUnchanged
    /\ UNCHANGED <<start_point, end_point, freeform_points, is_selecting,
                   selection_rect, hovered_window, window_rect, escaped,
                   hvars, cvars, pvars, avars, tvars, rvars>>

\* keyPressEvent with Escape resetting the selection state
keyPressEvent_resets(key) ==
    /\ Delivered
    /\ last_event' = "key"
    /\ ConfigUnchanged
    /\ UNCHANGED <<selection_rect, hovered_window, window_rect,
                   timer_pending, hvars, cvars, pvars, avars, tvars, rvars>>
    /\ IF key = "Key_Escape"
       THEN /\ escaped' = TRUE
            /\ EmitCancelled
            /\ start_point' = None
            /\ end_point' = None
            /\ freeform_points' = <<>>
            /\ is_selecting' = FALSE
       ELSE /\ UNCHANGED <<escaped, start_point, end_point, freeform_points,
                           is_selecting>>
            /\ OutcomeUnchanged

keyPressEvent(key) ==
    /\ Delivered
    /\ last_event' = "key"
    /\ ConfigUnchanged
    /\ UNCHANGED <<start_point, end_point, freeform_points, is_selecting,
                   selection_rect, hovered_window, window_rect,
                   timer_pending, hvars, cvars, pvars, avars, tvars, rvars>>
    /\ IF key = "Key_Escape"
       THEN /\ escaped' = TRUE
            /\ EmitCancelled
       ELSE /\ UNCHANGED escaped
            /\ OutcomeUnchanged

(***************************************************************************)
(* selector.py: find_monitor_at_point, called on its own                   *)
(***************************************************************************)
\* find_monitor_at_point testing the closed interval
find_monitor_at_point_closed(mons, x, y) ==
    LET hits == {i \in DOMAIN mons :
                    /\ mons[i].left <= x /\ x <= mons[i].right
                    /\ mons[i].top <= y /\ y <= mons[i].bottom}
    IN IF hits # {} THEN Some(mons[Min(hits)])
       ELSE IF mons # <<>> THEN Some(mons[1]) ELSE None

\* find_monitor_at_point(x, y) with get_all_monitors() returning mons: the
\* loop returns at the first monitor that holds the point
find_monitor_at_point(mons, x, y) ==
    LET hits == {i \in DOMAIN mons :
                    /\ mons[i].left <= x /\ x < mons[i].right
                    /\ mons[i].top <= y /\ y < mons[i].bottom}
    IN IF hits # {} THEN Some(mons[Min(hits)])
       ELSE IF mons # <<>> THEN Some(mons[1]) ELSE None

\* what EnumDisplayMonitors reports to find_monitor_at_point: the topologies
\* of the overlay, the two displays enumerated left one first, two mirrored
\* displays, and three displays in a row
PointTopologies ==
    Topologies \cup
    {<<Monitor(-1280, 0, 1280, 1024), Monitor(0, 0, 1920, 1080)>>,
     <<Monitor(0, 0, 1920, 1080), Monitor(0, 0, 1280, 1024)>>,
     <<Monitor(0, 0, 1920, 1080), Monitor(-1280, 0, 1280, 1024),
       Monitor(1920, 0, 1280, 1024)>>}
\* the coordinates of the points asked about: the edges of the displays,
\* the pixels next to them, and points far outside
PointXs == {-2000, -1281, -1280, -1, 0, 1279, 1280, 1919, 1920, 3199, 3200}
PointYs == {-1, 0, 1023, 1024, 1079, 1080}

FindMonitorCall(mons, x, y) ==
    /\ call_args' = Some([monitors |-> mons, x |-> x, y |-> y])
    /\ call_ret' = find_monitor_at_point(mons, x, y)
    /\ UNCHANGED <<hvars, cvars, ovars, avars, tvars, rvars>>

(***************************************************************************)
(* selector.py: get_virtual_screen_bounds, called on its own               *)
(***************************************************************************)
\* the displays EnumDisplayMonitors may report: the primary one and
\* displays to its left, to its right, above it and below it
BoundsMonitors == {Monitor(0, 0, 1920, 1080), Monitor(-1280, 0, 1280, 1024),
                   Monitor(1920, 0, 1280, 1024), Monitor(0, -1080, 1920, 1080),
                   Monitor(320, 1080, 1280, 1024)}

\* the lists of up to n of them, in every order
MonitorLists(n) ==
    UNION {[1..k -> BoundsMonitors] : k \in 0..n}

VirtualBoundsCall(mons) ==
    /\ call_args' = Some([monitors |-> mons])
    /\ call_ret' = Some(get_virtual_screen_bounds(mons))
    /\ UNCHANGED <<hvars, cvars, ovars, avars, tvars, rvars>>

(***************************************************************************)
(* bretclip.py: BretClipApp, the capture requests and the delay countdown  *)
(***************************************************************************)
\* the values of DelayOption
DelayOption == {0, 3, 5, 10}

\* self.selector = SelectionOverlay(mode): the session and its number
Session(m, id) == [mode |-> m, id |-> id, done |-> FALSE]

\* _do_capture(mode), called by the dialog, the tray or the delay timer
do_capture(m, by) ==
    /\ editor' = IF editor # None /\ editor.val.visible
                 THEN Some([editor.val EXCEPT !.visible = FALSE])
                 ELSE editor
    /\ selector' = Some(Session(m, Len(started) + 1))
    /\ started' = Append(started, [mode |-> m, by |-> by,
                                   cancel_requested |-> cancel_requested])

\* _show_capture_dialog accepted with (mode, delay): _start_capture and
\* _start_delay_countdown.  A new QTimer replaces the one self.delay_timer
\* held, which is destroyed with its countdown.
start_capture(m, delay) ==
    /\ IF delay > 0
       THEN /\ pending_mode' = Some(m)
            /\ delay_timer' = Some([active |-> TRUE, seconds |-> delay])
            /\ cancel_requested' = FALSE
            /\ UNCHANGED <<selector, editor, started>>
       ELSE /\ do_capture(m, "dialog")
            /\ UNCHANGED <<pending_mode, delay_timer, cancel_requested>>
    /\ UNCHANGED <<cleanup_pending, hvars, cvars, ovars, pvars>>

\* _direct_capture(mode), the slot of trigger_direct_capture
direct_capture(m) ==
    /\ do_capture(m, "direct")
    /\ UNCHANGED <<pending_mode, delay_timer, cancel_requested,
                   cleanup_pending, hvars, cvars, ovars, pvars>>

\* _on_delay_complete, the slot of the single-shot delay timer
on_delay_complete ==
    /\ delay_timer # None
    /\ delay_timer.val.active
    /\ delay_timer' = Some([delay_timer.val EXCEPT !.active = FALSE])
    /\ IF pending_mode # None
       THEN /\ do_capture(pending_mode.val, "delay")
            /\ pending_mode' = None
       ELSE UNCHANGED <<pending_mode, selector, editor, started>>
    /\ UNCHANGED <<cancel_requested, cleanup_pending, hvars, cvars, ovars,
                   pvars>>

\* The user asks to cancel the running countdown.  BretClipApp has no
\* handler for it: nothing stops self.delay_timer or clears
\* self.pending_mode, so the request changes nothing in the application.
CancelCountdownRequest ==
    /\ delay_timer # None
    /\ delay_timer.val.active
    /\ cancel_requested' = TRUE
    /\ UNCHANGED <<pending_mode, delay_timer, selector, cleanup_pending,
                   editor, started, hvars, cvars, ovars, pvars>>

\* _on_capture_complete(image), the slot of selection_complete
on_capture_complete(has_image) ==
    /\ selector # None
    /\ ~selector.val.done
    /\ selector' = Some([selector.val EXCEPT !.done = TRUE])
    /\ cleanup_pending' = cleanup_pending + 1
    /\ editor' = IF has_image THEN Some([visible |-> TRUE, image |-> TRUE])
                 ELSE editor
    /\ UNCHANGED <<pending_mode, delay_timer, started, cancel_requested,
                   hvars, cvars, ovars, pvars>>

\* _cleanup_selector, the slot of the zero-delay timer
cleanup_selector ==
    /\ cleanup_pending > 0
    /\ cleanup_pending' = cleanup_pending - 1
    /\ selector' = None
    /\ UNCHANGED <<pending_mode, delay_timer, editor, started,
                   cancel_requested, hvars, cvars, ovars, pvars>>

\* _on_capture_cancelled, the slot of selection_cancelled
on_capture_cancelled ==
    /\ selector # None
    /\ ~selector.val.done
    /\ selector' = None
    /\ UNCHANGED <<pending_mode, delay_timer, cleanup_pending, editor,
                   started, cancel_requested, hvars, cvars, ovars, pvars>>

\* _show_editor, the slot of trigger_show
show_editor ==
    /\ editor' = IF editor = None
                 THEN Some([visible |-> TRUE, image |-> FALSE])
                 ELSE Some([editor.val EXCEPT !.visible = TRUE])
    /\ UNCHANGED <<pending_mode, delay_timer, selector, cleanup_pending,
                   started, cancel_requested, hvars, cvars, ovars, pvars>>

\* _on_editor_closed, the slot of the editor's closed signal
on_editor_closed ==
    /\ editor # None
    /\ editor' = None
    /\ UNCHANGED <<pending_mode, delay_timer, selector, cleanup_pending,
                   started, cancel_requested, hvars, cvars, ovars, pvars>>

(***************************************************************************)
(* hotkeys.py, tray.py, bretclip.py: the threads.  The keyboard hook calls *)
(* HotkeyManager._on_hotkey on its listener thread and pystray calls the   *)
(* menu handlers on the thread of icon.run; each starts a threading.Thread *)
(* for the callback BretClipApp gave it, except the Exit item, which calls *)
(* it in place.  SignalBridge lives on the UI thread, so a signal emitted  *)
(* on another thread is queued and its slot runs on the UI thread.         *)
(***************************************************************************)
\* the mode strings of the tray menu (tray.py:55-70)
TrayModes == {"rectangular", "freeform", "window", "fullscreen"}

\* mode_map.get(mode, CaptureMode.RECTANGULAR) of _on_tray_capture
mode_map(m) ==
    CASE m = "rectangular" -> "RECTANGULAR"
      [] m = "freeform" -> "FREEFORM"
      [] m = "window" -> "WINDOW"
      [] m = "fullscreen" -> "FULLSCREEN"
      [] OTHER -> "RECTANGULAR"

\* a started thread: its target and the argument it is called with
Callback(target, arg) == [target |-> target, arg |-> arg]
\* a queued emission of a SignalBridge signal
Signal(name, arg) == [signal |-> name, arg |-> arg]

\* a step of the UI thread that starts no thread and emits no signal
UiStep ==
    /\ ~quit_called
    /\ thread' = "ui"
    /\ UNCHANGED <<callbacks, signal_queue, listening, quit_called, rvars>>

\* threading.Thread(target=cb, daemon=True).start(), on the thread t
StartThread(t, cb) ==
    /\ thread' = t
    /\ callbacks' = Append(callbacks, cb)
    /\ UNCHANGED <<signal_queue, listening, quit_called, avars, hvars, cvars,
                   ovars, pvars, rvars>>

\* BretClipApp.run: tray.start(), hotkey_manager.start(), app.exec_()
run ==
    /\ ~listening.tray
    /\ ~listening.hotkey
    /\ ~quit_called
    /\ listening' = [hotkey |-> TRUE, tray |-> TRUE]
    /\ thread' = "ui"
    /\ UNCHANGED <<callbacks, signal_queue, quit_called, avars, hvars, cvars,
                   ovars, pvars, rvars>>

\* HotkeyManager._on_hotkey, called by the keyboard hook for ctrl+alt+b
HotkeyManager_on_hotkey ==
    /\ listening.hotkey
    /\ StartThread("listener", Callback("_on_hotkey", None))

\* SystemTray._menu_new_capture
menu_new_capture ==
    /\ listening.tray
    /\ StartThread("tray", Callback("_on_tray_capture", None))

\* SystemTray._menu_capture_mode(mode)
menu_capture_mode(m) ==
    /\ listening.tray
    /\ StartThread("tray", Callback("_on_tray_capture", Some(m)))

\* SystemTray._menu_show_window
menu_show_window ==
    /\ listening.tray
    /\ StartThread("tray", Callback("_on_tray_show", None))

\* BretClipApp._on_exit: hotkey_manager.stop(), tray.stop(), app.quit()
on_exit ==
    /\ listening' = [hotkey |-> FALSE, tray |-> FALSE]
    /\ quit_called' = TRUE

\* SystemTray._menu_exit: self.on_exit() is called in place, on the thread
\* of icon.run, and self.stop() after it finds the icon already stopped
menu_exit ==
    /\ listening.tray
    /\ thread' = "tray"
    /\ on_exit
    /\ UNCHANGED <<callbacks, signal_queue, avars, hvars, cvars, ovars, pvars,
                   rvars>>

\* BretClipApp._on_hotkey
on_hotkey == signal_queue' = Append(signal_queue,
                                    Signal("trigger_capture", None))

\* BretClipApp._on_tray_capture(mode)
on_tray_capture(m) ==
    signal_queue' =
        Append(signal_queue,
               IF m # None
               THEN Signal("trigger_direct_capture", Some(mode_map(m.val)))
               ELSE Signal("trigger_capture", None))

\* BretClipApp._on_tray_show
on_tray_show == signal_queue' = Append(signal_queue,
                                       Signal("trigger_show", None))

\* the i-th started thread runs its target
RunCallback(i) ==
    LET cb == callbacks[i]
    IN /\ thread' = "callback"
       /\ callbacks' = [j \in 1..(Len(callbacks) - 1) |->
                           IF j < i THEN callbacks[j] ELSE callbacks[j + 1]]
       /\ CASE cb.target = "_on_hotkey" -> on_hotkey
            [] cb.target = "_on_tray_capture" -> on_tray_capture(cb.arg)
            [] cb.target = "_on_tray_show" -> on_tray_show
       /\ UNCHANGED <<listening, quit_called, avars, hvars, cvars, ovars,
                      pvars, rvars>>

\* the UI thread's event loop takes the oldest queued emission of the
\* signal name and calls its slot
Dequeue(name) ==
    /\ ~quit_called
    /\ signal_queue # <<>>
    /\ Head(signal_queue).signal = name
    /\ signal_queue' = Tail(signal_queue)
    /\ thread' = "ui"
    /\ UNCHANGED <<callbacks, listening, quit_called, rvars>>

\* _show_capture_dialog: dialog.exec_() is accepted with (mode, delay), or
\* rejected
show_capture_dialog(accepted, m, delay) ==
    IF accepted THEN start_capture(m, delay)
    ELSE UNCHANGED <<avars, hvars, cvars, ovars, pvars>>

(***************************************************************************)
(* Initial states and specifications                                       *)
(***************************************************************************)
\* no module-level function has been called
InitCalls ==
    /\ call_args = None
    /\ call_ret = None

\* BretClipApp.__init__
InitApp ==
    /\ pending_mode = None
    /\ delay_timer = None
    /\ selector = None
    /\ cleanup_pending = 0
    /\ editor = None
    /\ started = <<>>
    /\ cancel_requested = FALSE

\* BretClipApp.__init__: run() has not been called
InitThreads ==
    /\ thread = "ui"
    /\ callbacks = <<>>
    /\ signal_queue = <<>>
    /\ listening = [hotkey |-> FALSE, tray |-> FALSE]
    /\ quit_called = FALSE

\* the objects DrawingCanvas.__init__ and AnnotationHistory.__init__ create:
\* the list of self.annotations and the empty snapshot of self.history
InitHeap ==
    /\ list_heap = << <<>>, <<>> >>
    /\ ann_heap = <<>>
    /\ annotations_ref = 1
    /\ history_ref = <<2>>
    /\ current_annotation_ref = None

\* AnnotationHistory.__init__
InitHistory ==
    /\ history = <<<<>>>>
    /\ current_index = 0
    /\ hist_ret = None
    /\ hist_op = "init"
    /\ before = NoState

\* DrawingCanvas.__init__
InitCanvas ==
    /\ original_image = None
    /\ annotations = <<>>
    /\ current_annotation = None
    /\ current_tool = AnnotationTool("PEN", Red, DefaultSize, DefaultOpacity)
    /\ is_drawing = FALSE
    /\ widget_size = [w |-> 400, h |-> 300]
    /\ scale_factor = One
    /\ offset = Point(0, 0)
    /\ modified = FALSE

\* SelectionOverlay.__init__(m, target) on the monitors mons
InitOverlayWith(m, mons, target) ==
    /\ mode = m
    /\ monitors = mons
    /\ target_monitor_index = target
    /\ overlay_offset = setup_ui_offset(mons, target)
    /\ start_point = None
    /\ end_point = None
    /\ freeform_points = <<>>
    /\ is_selecting = FALSE
    /\ selection_rect = None
    /\ hovered_window = None
    /\ window_rect = None
    /\ disp = [shown |-> FALSE, visible |-> FALSE, on_screen |-> FALSE]
    /\ timer_pending = FALSE
    /\ sct_closed = FALSE
    /\ emitted = <<>>
    /\ captures = <<>>
    /\ escaped = FALSE
    /\ last_event = "init"
    /\ crashed = FALSE

\* the editor alone: no capture is under way
InitEditor ==
    /\ InitHistory
    /\ InitCanvas
    /\ InitCalls
    /\ InitApp
    /\ InitThreads
    /\ InitHeap
    /\ InitOverlayWith("RECTANGULAR", <<Monitor(0, 0, 1920, 1080)>>, None)

InitOverlay ==
    /\ InitHistory
    /\ InitCanvas
    /\ InitCalls
    /\ InitApp
    /\ InitThreads
    /\ InitHeap
    /\ \E m \in CaptureMode, mons \in Topologies, target \in TargetIndexes :
          InitOverlayWith(m, mons, target)

NextHistory ==
    \/ \E anns \in AnnotationLists : H_add_state(anns)
    \/ H_undo
    \/ H_redo
    \/ H_clear

\* the canvas handlers, with their inputs drawn from the given sets
NextCanvasWith(images, tooltypes, positions, dialogs) ==
    \/ \E img \in images : set_image(img) /\ UNCHANGED rvars
    \/ \E tt \in tooltypes :
          /\ set_tool(AnnotationTool(tt, Red, DefaultSize, DefaultOpacity))
          /\ UNCHANGED rvars
    \/ \E button \in Buttons, pos \in positions, dlg \in dialogs :
          /\ Len(annotations) < MaxAnnotations
          /\ Canvas_mousePressEvent(button, pos, dlg)
          /\ UNCHANGED rvars
    \/ \E pos \in positions :
          /\ current_annotation # None
             => Len(current_annotation.val.points) < MaxPathPoints
          /\ Canvas_mouseMoveEvent(pos)
          /\ UNCHANGED rvars
    \/ \E button \in Buttons :
          /\ Len(annotations) < MaxAnnotations
          /\ Canvas_mouseReleaseEvent(button)
          /\ UNCHANGED rvars
    \/ Canvas_undo /\ UNCHANGED rvars
    \/ Canvas_redo /\ UNCHANGED rvars
    \/ clear_annotations /\ UNCHANGED rvars

NextCanvas ==
    NextCanvasWith(ImageSizes, CanvasToolTypes, CanvasPositions, DialogResults)

\* the canvas handlers with the Pen and the Eraser selected
NextEraser ==
    \/ \E img \in ImageSizes : set_image(img) /\ UNCHANGED rvars
    \/ \E tt \in EraserToolTypes :
          /\ set_tool(AnnotationTool(tt, Red, DefaultSize, DefaultOpacity))
          /\ UNCHANGED rvars
    \/ \E pos \in CanvasPositions :
          /\ Len(annotations) < MaxAnnotations
          /\ Canvas_mousePressEvent("LeftButton", pos,
                                    [text |-> "", ok |-> FALSE])
          /\ UNCHANGED rvars
    \/ \E pos \in CanvasPositions :
          /\ current_annotation # None
             => Len(current_annotation.val.points) < MaxPathPoints
          /\ Canvas_mouseMoveEvent(pos)
          /\ UNCHANGED rvars
    \/ /\ Len(annotations) < MaxAnnotations
       /\ Canvas_mouseReleaseEvent("LeftButton")
       /\ UNCHANGED rvars

SpecEraser == InitEditor /\ [][NextEraser]_vars

\* Pen strokes and undo on a canvas whose widget is resized
NextResize ==
    \/ \E img \in ImageSizes : set_image(img) /\ UNCHANGED rvars
    \/ \E wsize \in WidgetSizes : resizeEvent(wsize) /\ UNCHANGED rvars
    \/ \E pos \in CanvasPositions :
          /\ Len(annotations) < MaxAnnotations
          /\ Canvas_mousePressEvent("LeftButton", pos,
                                    [text |-> "", ok |-> FALSE])
          /\ UNCHANGED rvars
    \/ \E pos \in CanvasPositions :
          /\ current_annotation # None
             => Len(current_annotation.val.points) < MaxPathPoints
          /\ Canvas_mouseMoveEvent(pos)
          /\ UNCHANGED rvars
    \/ /\ Len(annotations) < MaxAnnotations
       /\ Canvas_mouseReleaseEvent("LeftButton")
       /\ UNCHANGED rvars
    \/ Canvas_undo /\ UNCHANGED rvars

SpecResize == InitEditor /\ [][NextResize]_vars

NextOverlay ==
    \/ showEvent
    \/ \E raises \in (IF sct_closed THEN BOOLEAN ELSE {FALSE}) :
          TimerFires(raises)
    \/ \E button \in Buttons, pos \in Positions,
          now \in {WindowRectOf(101), WindowRectOf(0)} :
          /\ button = "LeftButton" => ~is_selecting
          /\ Overlay_mousePressEvent(button, pos, now)
    \/ \E pos \in Positions, hwnd \in Hwnds :
          /\ Len(freeform_points) < MaxPoints
          /\ Overlay_mouseMoveEvent(pos, hwnd)
    \/ \E button \in Buttons, pos \in Positions :
          Overlay_mouseReleaseEvent(button, pos)
    \/ \E key \in Keys : keyPressEvent(key)
    \/ ReleaseOverlay

\* the button of the gestures drawn on the objects
HeapButtons == {"LeftButton"}

\* the canvas handlers on values and on objects together
NextHeap ==
    \/ \E img \in ImageSizes :
          /\ HeapRoom(2, 0)
          /\ set_image(img)
          /\ Ref_set_image
    \/ \E tt \in CanvasToolTypes :
          /\ set_tool(AnnotationTool(tt, Red, DefaultSize, DefaultOpacity))
          /\ UNCHANGED rvars
    \/ \E button \in HeapButtons, pos \in CanvasPositions, dlg \in DialogResults :
          /\ Len(annotations) < MaxAnnotations
          /\ HeapRoom(1, Len(annotations) + 2)
          /\ Canvas_mousePressEvent(button, pos, dlg)
          /\ Ref_mousePressEvent(button, pos, dlg)
    \/ \E pos \in CanvasPositions :
          /\ current_annotation # None
             => Len(current_annotation.val.points) < MaxPathPoints
          /\ Canvas_mouseMoveEvent(pos)
          /\ Ref_mouseMoveEvent(pos)
    \/ \E button \in HeapButtons :
          /\ Len(annotations) < MaxAnnotations
          /\ HeapRoom(1, Len(annotations) + 1)
          /\ Canvas_mouseReleaseEvent(button)
          /\ Ref_mouseReleaseEvent(button)
    \/ /\ HeapRoom(1, 0)
       /\ Canvas_undo
       /\ Ref_undo
    \/ /\ HeapRoom(1, 0)
       /\ Canvas_redo
       /\ Ref_redo
    \/ /\ HeapRoom(2, 0)
       /\ clear_annotations
       /\ Ref_clear_annotations

SpecHeap == InitEditor /\ [][NextHeap]_vars

\* the arguments callers construct tools with: a colour left out, the
\* default red and another colour; a size and an opacity (in tenths) that
\* are not the highlighter's
BuiltToolTypes == {"PEN", "HIGHLIGHTER"}
BuiltColors == {NoColor, Red, Blue}
BuiltSizes == {8}
BuiltOpacities == {7}

\* the canvas drawn on with tools built from every combination of
\* arguments, each stroke a press and a release
NextTools ==
    \/ \E img \in ImageSizes : set_image(img) /\ UNCHANGED rvars
    \/ \E tt \in BuiltToolTypes, color \in BuiltColors, size \in BuiltSizes,
          opacity \in BuiltOpacities :
          /\ ConstructAndSetTool(tt, color, size, opacity)
          /\ UNCHANGED rvars
    \/ \E button \in Buttons, pos \in CanvasPositions :
          /\ Len(annotations) < MaxStrokes
          /\ Canvas_mousePressEvent(button, pos, [text |-> "", ok |-> FALSE])
          /\ UNCHANGED rvars
    \/ \E button \in Buttons :
          /\ Len(annotations) < MaxStrokes
          /\ Canvas_mouseReleaseEvent(button)
          /\ UNCHANGED rvars
    \/ Canvas_undo /\ UNCHANGED rvars
    \/ Canvas_redo /\ UNCHANGED rvars
    \/ clear_annotations /\ UNCHANGED rvars

SpecTools == InitEditor /\ [][NextTools]_vars

\* drawing gestures with the shape and the freehand tools; the tool
\* shortcuts (window.py:492-509) reach set_tool while a button is held
NextStrokes ==
    \/ \E img \in ImageSizes : set_image(img) /\ UNCHANGED rvars
    \/ \E tt \in StrokeToolTypes :
          /\ set_tool(AnnotationTool(tt, Red, DefaultSize, DefaultOpacity))
          /\ UNCHANGED rvars
    \/ \E pos \in StrokePositions :
          /\ Len(annotations) < MaxStrokes
          /\ Canvas_mousePressEvent("LeftButton", pos,
                                    [text |-> "", ok |-> FALSE])
          /\ UNCHANGED rvars
    \/ \E pos \in StrokePositions :
          /\ (current_annotation # None
                 /\ current_tool.tool_type \in FreehandTools)
             => Len(current_annotation.val.points) < MaxGesturePoints
          /\ Canvas_mouseMoveEvent(pos)
          /\ UNCHANGED rvars
    \/ /\ Len(annotations) < MaxStrokes
       /\ Canvas_mouseReleaseEvent("LeftButton")
       /\ UNCHANGED rvars

SpecStrokes == InitEditor /\ [][NextStrokes]_vars

SpecHistory == InitEditor /\ [][NextHistory]_vars
SpecCanvas == InitEditor /\ [][NextCanvas]_vars
SpecOverlay == InitOverlay /\ [][NextOverlay]_vars

\* the overlay with a failure of the mask compositing among its steps
NextOverlayFaults ==
    \/ NextOverlay
    \/ \E pos \in Positions : Overlay_mouseReleaseEvent_compositing_raises(pos)

SpecOverlayFaults == InitOverlay /\ [][NextOverlayFaults]_vars

NextMonitors ==
    \E mons \in PointTopologies, x \in PointXs, y \in PointYs :
        FindMonitorCall(mons, x, y)

SpecMonitors == InitEditor /\ [][NextMonitors]_vars

NextBounds == \E mons \in MonitorLists(MaxMonitors) : VirtualBoundsCall(mons)

SpecBounds == InitEditor /\ [][NextBounds]_vars

NextApp ==
    \/ \E m \in CaptureMode, delay \in DelayOption :
          /\ Len(started) < MaxCaptures
          /\ start_capture(m, delay)
          /\ UiStep
    \/ \E m \in CaptureMode :
          /\ Len(started) < MaxCaptures
          /\ direct_capture(m)
          /\ UiStep
    \/ /\ Len(started) < MaxCaptures
       /\ on_delay_complete
       /\ UiStep
    \/ CancelCountdownRequest /\ UiStep
    \/ \E has_image \in BOOLEAN : on_capture_complete(has_image) /\ UiStep
    \/ cleanup_selector /\ UiStep
    \/ on_capture_cancelled /\ UiStep
    \/ show_editor /\ UiStep
    \/ on_editor_closed /\ UiStep

SpecApp == InitEditor /\ [][NextApp]_vars

\* what the user picks in the capture dialog and in the tray menu
DialogModes == {"RECTANGULAR", "FULLSCREEN"}
DialogDelays == {0, 3}
TrayItems == {"freeform", "window"}

\* the application running: the hotkey, the tray menu, the callback threads
\* and the slots of the UI thread
NextThreads ==
    \/ run
    \/ /\ Len(callbacks) + Len(signal_queue) < MaxInFlight
       /\ HotkeyManager_on_hotkey
    \/ /\ Len(callbacks) + Len(signal_queue) < MaxInFlight
       /\ menu_new_capture
    \/ \E m \in TrayItems :
          /\ Len(callbacks) + Len(signal_queue) < MaxInFlight
          /\ menu_capture_mode(m)
    \/ /\ Len(callbacks) + Len(signal_queue) < MaxInFlight
       /\ menu_show_window
    \/ menu_exit
    \/ \E i \in DOMAIN callbacks : RunCallback(i)
    \/ \E accepted \in BOOLEAN, m \in DialogModes, delay \in DialogDelays :
          /\ Len(started) < MaxCaptures
          /\ Dequeue("trigger_capture")
          /\ show_capture_dialog(accepted, m, delay)
    \/ /\ Len(started) < MaxCaptures
       /\ Dequeue("trigger_direct_capture")
       /\ direct_capture(Head(signal_queue).arg.val)
    \/ Dequeue("trigger_show") /\ show_editor
    \/ /\ Len(started) < MaxCaptures
       /\ on_delay_complete
       /\ UiStep
    \/ \E has_image \in BOOLEAN : on_capture_complete(has_image) /\ UiStep
    \/ cleanup_selector /\ UiStep
    \/ on_capture_cancelled /\ UiStep
    \/ on_editor_closed /\ UiStep

SpecThreads == InitEditor /\ [][NextThreads]_vars

(***************************************************************************)
(* Properties of AnnotationHistory (SpecHistory)                           *)
(***************************************************************************)
\* C1: after any sequence of add_state, undo, redo and clear calls the
\* snapshot list is non-empty and 0 <= current_index < len(history).
C1_CursorWithinNonEmptyHistory ==
    /\ Len(history) >= 1
    /\ 0 <= current_index
    /\ current_index < Len(history)

\* C1 witness: a full history walked back to its oldest snapshot by undo().
C1_Witness ==
    /\ hist_op = "undo"
    /\ hist_ret # None
    /\ Len(history) = max_history
    /\ current_index = 0

\* C2: the number of snapshots never exceeds max_history, and the cursor is
\* a valid index after every eviction.
C2_LengthWithinCap ==
    /\ Len(history) <= max_history
    /\ current_index \in 0..(Len(history) - 1)

\* C2 witness: a push has evicted the initial empty snapshot (only an
\* eviction removes the snapshot at index 0 while the list stays full).
C2_Witness ==
    /\ hist_op = "add_state"
    /\ before.valid
    /\ Len(before.history) = max_history
    /\ before.current_index = max_history - 1
    /\ Len(history) = max_history
    /\ history[1] # <<>>

\* C3: with can_undo() true, undo() directly followed by redo() returns the
\* list that was current before the undo and leaves the snapshot list and
\* the cursor as they were before the undo.
C3_UndoRedoRestores ==
    (hist_op = "redo" /\ before.valid)
        => /\ history = before.history
           /\ current_index = before.current_index
           /\ hist_ret = Some(before.history[before.current_index + 1])

\* C3 witness: a redo() directly after an undo() that moved the cursor,
\* handing back a non-empty annotation list.
C3_Witness ==
    /\ hist_op = "redo"
    /\ before.valid
    /\ hist_ret # None
    /\ hist_ret.val # <<>>

\* C4: directly after any push can_redo() is false and redo() returns
\* nothing; in particular a push made after undos has dropped every snapshot
\* beyond the cursor it started from.
C4_PushDiscardsRedo ==
    hist_op = "add_state"
        => /\ ~can_redo(Hist)
           /\ redo(Hist).ret = None
           /\ current_index = Len(history) - 1

\* C4 witness: push([A]), push([A,B]), undo(), push([A,C]): the push started
\* below the last index and [A,B] is gone.
C4_Witness ==
    /\ hist_op = "add_state"
    /\ before.valid
    /\ before.history = <<<<>>, <<AnnA>>, <<AnnA, AnnB>>>>
    /\ before.current_index = 1
    /\ history = <<<<>>, <<AnnA>>, <<AnnA, AnnC>>>>

\* C24: add_state drops the snapshots after the cursor, appends the new
\* snapshot and advances the cursor by one; past the cap it evicts from the
\* oldest end only.  After every push the cursor is the last index, the
\* snapshot at the cursor equals the list pushed, and the snapshots kept are
\* the most recent ones in their order.
C24_PushTruncatesAppendsEvictsOldest ==
    (hist_op = "add_state" /\ before.valid /\ call_args # None)
        => LET pushed == call_args.val.annotations
               kept == SubSeq(before.history, 1, before.current_index + 1)
               full == Append(kept, pushed)
               n == Len(full)
           IN /\ history = IF n > max_history
                            THEN SubSeq(full, n - max_history + 1, n)
                            ELSE full
              /\ current_index = Len(history) - 1
              /\ history[current_index + 1] = pushed
              /\ n <= max_history
                    => current_index = before.current_index + 1

\* C24 witness: a push at the last index of a full history evicted the
\* oldest snapshot and kept the others in order before the list pushed.
C24_Witness ==
    /\ hist_op = "add_state"
    /\ before.valid
    /\ Len(before.history) = max_history
    /\ before.current_index = max_history - 1
    /\ call_args = Some([annotations |-> <<AnnA, AnnC>>])
    /\ history = Append(Tail(before.history), <<AnnA, AnnC>>)
    /\ before.history[1] # before.history[2]

(***************************************************************************)
(* Properties of DrawingCanvas with its history (SpecCanvas)               *)
(***************************************************************************)
\* C5: undo() at cursor 0 and redo() at the last index return nothing and
\* leave the cursor, the snapshot list and the canvas's working annotation
\* list unchanged (and no image_modified is emitted).
C5_BoundaryUndoRedoNoOp ==
    [][/\ (hist_op' = "undo" /\ current_index = 0)
            => /\ hist_ret' = None
               /\ ~modified'
               /\ UNCHANGED <<history, current_index, annotations>>
       /\ (hist_op' = "redo" /\ current_index = Len(history) - 1)
            => /\ hist_ret' = None
               /\ ~modified'
               /\ UNCHANGED <<history, current_index, annotations>>]_vars

\* C5 witness: undo() refused at cursor 0 while the working list and the
\* history are not empty (the initial snapshot has been evicted).
C5_Witness ==
    /\ hist_op = "undo"
    /\ hist_ret = None
    /\ current_index = 0
    /\ annotations # <<>>
    /\ Len(history) = max_history

\* C26: a pointer-press with a tool other than Text and a pointer-move
\* leave the snapshot list and the cursor unchanged; a snapshot is pushed
\* only by the pointer-release of a drawing gesture, by a text commit or by
\* clear_annotations (set_image replaces the history by the initial one).
C26_HistoryChangesAtCompletionOnly ==
    [][/\ hist_op' = "mouseMoveEvent"
             => UNCHANGED <<history, current_index>>
       /\ (hist_op' = "mousePressEvent" /\ current_tool.tool_type # "TEXT")
             => UNCHANGED <<history, current_index>>
       /\ (history' # history /\ hist_op' # "set_image")
             => \/ hist_op' = "mouseReleaseEvent" /\ is_drawing
                \/ hist_op' = "mousePressEvent"
                      /\ current_tool.tool_type = "TEXT"
                \/ hist_op' = "clear_annotations"]_vars

\* C26 witness: in the middle of a second stroke, after a pointer-move, the
\* stroke under way has two points and the snapshot at the cursor is still
\* the working list of one finished stroke.
C26_Witness ==
    /\ hist_op = "mouseMoveEvent"
    /\ is_drawing
    /\ current_annotation # None
    /\ Len(current_annotation.val.points) = 2
    /\ Len(annotations) = 1
    /\ Len(history) = 2
    /\ history[current_index + 1] = annotations

\* C31: a left press with the Text tool on a loaded image whose prompt is
\* cancelled or returns the empty string creates no annotation: the working
\* list, the snapshots, the cursor and the annotation under way are
\* unchanged, image_modified is not emitted and is_drawing is False
\* afterwards.
C31_RefusedTextCreatesNothing ==
    [][\A pos \in CanvasPositions, dlg \in DialogResults :
          (/\ ~(dlg.ok /\ dlg.text # "")
           /\ current_tool.tool_type = "TEXT"
           /\ original_image # None
           /\ Canvas_mousePressEvent("LeftButton", pos, dlg))
          => /\ UNCHANGED <<annotations, history, current_index,
                            current_annotation>>
             /\ modified' = FALSE
             /\ is_drawing' = FALSE]_vars

\* C31 witness: after a press with the Text tool that created nothing, the
\* working list still holds its annotation, a redo branch is still there
\* and the canvas is not drawing.
C31_Witness ==
    /\ hist_op = "mousePressEvent"
    /\ current_tool.tool_type = "TEXT"
    /\ original_image # None
    /\ ~is_drawing /\ ~modified
    /\ current_annotation = None
    /\ Len(annotations) = 1
    /\ current_index = 1 /\ Len(history) = 3

C33_SetImageResetsHistory ==
    [][/\ clear(Hist).history = <<<<>>>> /\ clear(Hist).current_index = 0
       /\ hist_op' = "set_image"
             => /\ history' = <<<<>>>> /\ current_index' = 0
                /\ annotations' = <<>>
                /\ ~can_undo([history |-> history',
                              current_index |-> current_index'])
                /\ ~can_redo([history |-> history',
                              current_index |-> current_index'])
       /\ (/\ history = <<<<>>>> /\ annotations = <<>>
           /\ (Canvas_undo \/ Canvas_redo))
             => UNCHANGED <<annotations, history, current_index>>]_vars

\* C33 witness: set_image was called when the history held three snapshots
\* with the cursor on the middle one, so that both undo and redo were
\* possible; now the history is the single empty snapshot.
C33_Witness ==
    /\ hist_op = "set_image"
    /\ before.valid
    /\ Len(before.history) = 3 /\ before.current_index = 1
    /\ before.history[3] # <<>>
    /\ history = <<<<>>>> /\ current_index = 0
    /\ annotations = <<>>

\* C35: whenever no drawing gesture is under way, the working annotation
\* list equals the snapshot at the cursor.
C35_WorkingListIsSnapshotAtCursor ==
    ~is_drawing
        => /\ current_index + 1 \in 1..Len(history)
           /\ annotations = history[current_index + 1]

\* C35 witness: after an undo that returned a state, with no gesture under
\* way, the working list is the non-empty snapshot at the cursor and a
\* newer snapshot is kept for redo.
C35_Witness ==
    /\ hist_op = "undo" /\ hist_ret # None
    /\ ~is_drawing
    /\ annotations # <<>>
    /\ annotations = history[current_index + 1]
    /\ current_index + 1 < Len(history)

\* C36: a drawing gesture with a tool other than Text changes the working
\* list and the history at its left release only, where it appends the one
\* annotation under way and pushes one snapshot (the redo branch goes, the
\* oldest snapshot goes at the cap), so that undo() then returns the working
\* list as it was before the release; a release while no gesture is under
\* way changes nothing.
C36_GestureAppendsOneUndoable ==
    [][/\ is_drawing => current_annotation # None
       /\ \A pos \in CanvasPositions, dlg \in DialogResults :
             (/\ current_tool.tool_type # "TEXT"
              /\ Canvas_mousePressEvent("LeftButton", pos, dlg))
             => UNCHANGED <<annotations, history, current_index>>
       /\ \A pos \in CanvasPositions :
             Canvas_mouseMoveEvent(pos)
             => UNCHANGED <<annotations, history, current_index>>
       /\ (is_drawing /\ Canvas_mouseReleaseEvent("LeftButton"))
             => LET kept == SubSeq(history, 1, current_index + 1)
                    pushed == Append(kept, annotations')
                    after == [history |-> history',
                              current_index |-> current_index']
                IN /\ annotations'
                         = Append(annotations, current_annotation.val)
                   /\ history' = IF Len(pushed) > max_history
                                 THEN Tail(pushed) ELSE pushed
                   /\ current_index' = Len(history') - 1
                   /\ modified'
                   /\ undo(after).ret = Some(annotations)
       /\ \A button \in Buttons :
             (~is_drawing /\ Canvas_mouseReleaseEvent(button))
             => /\ UNCHANGED <<annotations, history, current_index,
                               current_annotation, is_drawing>>
                /\ modified' = FALSE]_vars

\* C36 witness: a press and a release with no move in between completed a
\* second Pen stroke of one point; the snapshot below the cursor is the
\* working list without it.
C36_Witness ==
    /\ hist_op = "mouseReleaseEvent" /\ modified
    /\ Len(annotations) = 2
    /\ annotations[2].tool.tool_type = "PEN"
    /\ Len(annotations[2].points) = 1
    /\ current_index = 2 /\ Len(history) = 3
    /\ history[2] = <<annotations[1]>>
    /\ history[3] = annotations

\* C37: clear_annotations on an empty working list changes nothing: no
\* snapshot is pushed, the snapshots after the cursor stay and
\* image_modified is not emitted.  On a non-empty list it empties the list
\* and pushes one empty snapshot, and undo() then returns the list as it
\* was before the clear.
C37_ClearIsUndoable ==
    [][hist_op' = "clear_annotations"
          => IF annotations = <<>>
             THEN /\ UNCHANGED <<annotations, history, current_index>>
                  /\ modified' = FALSE
             ELSE LET kept == SubSeq(history, 1, current_index + 1)
                      pushed == Append(kept, <<>>)
                      after == [history |-> history',
                                current_index |-> current_index']
                  IN /\ annotations' = <<>>
                     /\ history' = IF Len(pushed) > max_history
                                   THEN Tail(pushed) ELSE pushed
                     /\ current_index' = Len(history') - 1
                     /\ modified'
                     /\ undo(after).ret = Some(annotations)]_vars

\* C37 witness: a working list of two annotations was cleared: the list is
\* empty, the snapshot at the cursor is empty and the one below it holds
\* the two annotations.
C37_Witness ==
    /\ hist_op = "clear_annotations" /\ modified
    /\ annotations = <<>>
    /\ history[current_index + 1] = <<>>
    /\ Len(history[current_index]) = 2

(***************************************************************************)
(* Properties of DrawingCanvas under resizes (SpecResize)                  *)
(***************************************************************************)
\* C34: a resize of the canvas changes the widget size, the scale factor
\* and the offset only: the working list with the points of every
\* annotation, the annotation under way, the snapshots and the cursor are
\* as before, and image_modified is not emitted.
C34_ResizeKeepsAnnotations ==
    [][hist_op' = "resizeEvent"
          => /\ UNCHANGED <<annotations, current_annotation, history,
                            current_index, original_image, current_tool,
                            is_drawing>>
             /\ modified' = FALSE]_vars

\* C34 witness: a stroke drawn at (140, 60) on the 400 by 300 widget, where
\* the 800 by 600 image is shown at half size, is stored at (280, 120); the
\* widget was then resized to 1000 by 600, where the image is shown at full
\* size 100 pixels from the left, and the stroke is still at (280, 120).
C34_Witness ==
    /\ hist_op = "resizeEvent"
    /\ widget_size = [w |-> 1000, h |-> 600]
    /\ scale_factor.num = scale_factor.den /\ offset = Point(100, 0)
    /\ Len(annotations) = 1
    /\ annotations[1].points[1] = Point(280, 120)
    /\ history = <<<<>>, annotations>> /\ current_index = 1

(***************************************************************************)
(* Properties of SelectionOverlay (SpecOverlay)                            *)
(***************************************************************************)
\* the pointer-up of a drag has been handled
PointerUpHandled ==
    /\ last_event = "release"
    /\ start_point # None
    /\ end_point # None
    /\ ~is_selecting

\* QRect(self.start_point, self.end_point).normalized()
SelectedRect == normalized(QRect(start_point.val, end_point.val))

\* C6: once an Escape has been handled no capture call is issued by the
\* session, in any mode.
C6_NoCaptureAfterEscape ==
    \A i \in DOMAIN captures : ~captures[i].after_escape

\* C7 as claimed: Escape emits selection_cancelled and the accumulated
\* start_point, end_point, freeform path and is_selecting are discarded.
C7_EscapeDiscardsState ==
    escaped
        => /\ \E i \in DOMAIN emitted : emitted[i] = Cancelled
           /\ start_point = None
           /\ end_point = None
           /\ freeform_points = <<>>
           /\ ~is_selecting

\* C7 amended: the Escape handler emits selection_cancelled at once, closes
\* the overlay and issues no capture call; it leaves start_point, end_point,
\* the freeform path and is_selecting as they were.
C7_EscapeCancelsKeepsState ==
    [][(~escaped /\ escaped')
          => /\ emitted' = Append(emitted, Cancelled)
             /\ ~disp'.visible
             /\ captures' = captures
             /\ UNCHANGED <<start_point, end_point, freeform_points,
                            is_selecting>>]_vars

\* C7 witness: Escape handled in the middle of a freeform drag.
C7_Witness ==
    /\ escaped
    /\ last_event = "key"
    /\ emitted = <<Cancelled>>
    /\ is_selecting
    /\ start_point # None
    /\ Len(freeform_points) >= 2

\* C8: every capture call is made with the overlay hidden and the pending
\* events processed, in all four capture paths.
C8_HiddenBeforeCapture ==
    \A i \in DOMAIN captures :
        /\ ~captures[i].overlay_visible
        /\ ~captures[i].overlay_on_screen

\* C8 witness: the fullscreen timer has captured and completed.
C8_Witness ==
    /\ mode = "FULLSCREEN"
    /\ last_event = "timer"
    /\ Len(captures) = 1
    /\ Len(emitted) = 1
    /\ emitted[1].signal = "selection_complete"

\* C9: in Rectangular mode a pointer-up whose normalized rectangle is under
\* 5 pixels wide or high yields Cancelled and no capture_region call.
C9_SmallRectCancelled ==
    (/\ mode = "RECTANGULAR"
     /\ PointerUpHandled
     /\ (RectWidth(SelectedRect) < 5 \/ RectHeight(SelectedRect) < 5))
        => /\ emitted = <<Cancelled>>
           /\ captures = <<>>

\* C9 witness: a drag from (3,3) to (10,0), 8 wide and 4 high, released.
C9_Witness ==
    /\ mode = "RECTANGULAR"
    /\ PointerUpHandled
    /\ start_point = Some(Point(3, 3))
    /\ end_point = Some(Point(10, 0))
    /\ RectHeight(SelectedRect) < 5
    /\ emitted = <<Cancelled>>

\* C10: in Rectangular mode a pointer-up whose normalized rectangle is at
\* least 5 by 5 yields Completed and exactly one capture_region call with
\* (overlay_offset.x + rect.x, overlay_offset.y + rect.y, width, height).
C10_LargeRectCaptured ==
    (/\ mode = "RECTANGULAR"
     /\ PointerUpHandled
     /\ RectWidth(SelectedRect) >= 5
     /\ RectHeight(SelectedRect) >= 5)
        => /\ Len(emitted) = 1
           /\ emitted[1].signal = "selection_complete"
           /\ Len(captures) = 1
           /\ captures[1].call = "capture_region"
           /\ captures[1].args = <<overlay_offset.x + SelectedRect.x1,
                                   overlay_offset.y + SelectedRect.y1,
                                   RectWidth(SelectedRect),
                                   RectHeight(SelectedRect)>>

\* C11: the rectangle of a rectangular selection does not depend on the
\* order of its two points: the rectangle mouseMoveEvent stores and the one
\* _capture_rectangular computes from (press, release) equal the rectangle
\* of the same two points taken in the other order.
C11_RectOrderIndependent ==
    /\ (mode = "RECTANGULAR" /\ last_event = "move" /\ is_selecting)
          => selection_rect
                 = Some(normalized(QRect(end_point.val, start_point.val)))
    /\ (mode = "RECTANGULAR" /\ PointerUpHandled)
          => SelectedRect = normalized(QRect(end_point.val, start_point.val))

\* the outcome of a completed 51 by 51 capture at local (50, 50)
C12_CaptureArgs(w, h) ==
    <<overlay_offset.x + 50, overlay_offset.y + 50, w, h>>

\* the session of C12: press at (100,100), drag to (50,50), release there
C12_Scenario ==
    /\ mode = "RECTANGULAR"
    /\ PointerUpHandled
    /\ start_point = Some(Point(100, 100))
    /\ end_point = Some(Point(50, 50))

\* C12 as claimed: the scenario yields the rectangle (50, 50, 50, 50), the
\* session completes and capture_region is asked for 50 by 50.
C12_Rect50x50 ==
    C12_Scenario
        => /\ SelectedRect.x1 = 50 /\ SelectedRect.y1 = 50
           /\ RectWidth(SelectedRect) = 50 /\ RectHeight(SelectedRect) = 50
           /\ emitted = <<Complete(Some(Image(50, 50, None)))>>
           /\ Len(captures) = 1
           /\ captures[1].call = "capture_region"
           /\ captures[1].args = C12_CaptureArgs(50, 50)

\* C12 amended: the scenario yields the rectangle (50, 50, 51, 51), both
\* corner pixels included; the session completes and capture_region is asked
\* for 51 by 51.
C12_Rect51x51 ==
    C12_Scenario
        => /\ SelectedRect.x1 = 50 /\ SelectedRect.y1 = 50
           /\ RectWidth(SelectedRect) = 51 /\ RectHeight(SelectedRect) = 51
           /\ emitted = <<Complete(Some(Image(51, 51, None)))>>
           /\ Len(captures) = 1
           /\ captures[1].call = "capture_region"
           /\ captures[1].args = C12_CaptureArgs(51, 51)

\* C12 witness: the scenario has run, the drag having stored the rectangle
\* with corners (50,50) and (100,100), and selection_complete was emitted.
C12_Witness ==
    /\ C12_Scenario
    /\ selection_rect = Some(QRect(Point(50, 50), Point(100, 100)))
    /\ Len(emitted) = 1
    /\ emitted[1].signal = "selection_complete"

\* C13: in Freeform mode a pointer-up with fewer than 3 points in the path
\* yields Cancelled and no capture call.
C13_ShortPathCancelled ==
    (/\ mode = "FREEFORM"
     /\ PointerUpHandled
     /\ Len(freeform_points) < 3)
        => /\ emitted = <<Cancelled>>
           /\ captures = <<>>

\* C13 witness: a two-point path spanning 11 by 11 pixels, released.
C13_Witness ==
    /\ mode = "FREEFORM"
    /\ PointerUpHandled
    /\ freeform_points = <<Point(0, 0), Point(10, 10)>>
    /\ emitted = <<Cancelled>>

\* the session of C14: the freeform path [(0,0),(10,0),(10,10)], released
C14_Scenario ==
    /\ mode = "FREEFORM"
    /\ PointerUpHandled
    /\ freeform_points = <<Point(0, 0), Point(10, 0), Point(10, 10)>>

\* the outcome of the scenario with a bounding box of w by h: one
\* capture_region call for it and selection_complete with an image and a
\* mask of that size, the mask holding the triangle
C14_Outcome(w, h) ==
    /\ RectWidth(boundingRect(freeform_points)) = w
    /\ RectHeight(boundingRect(freeform_points)) = h
    /\ Len(captures) = 1
    /\ captures[1].call = "capture_region"
    /\ captures[1].args = <<overlay_offset.x, overlay_offset.y, w, h>>
    /\ emitted = <<Complete(Some(Image(w, h,
                       Some(Mask(w, h, freeform_points)))))>>

\* C14 as claimed: the bounding box, the capture request and the mask are
\* 10 by 10 and the session completes.
C14_Box10x10 == C14_Scenario => C14_Outcome(10, 10)

\* C14 amended: the bounding box, the capture request and the mask are
\* 11 by 11 (both end pixels included) and the session completes.
C14_Box11x11 == C14_Scenario => C14_Outcome(11, 11)

\* C14 witness: the scenario has run and selection_complete was emitted
\* with a masked image.
C14_Witness ==
    /\ C14_Scenario
    /\ Len(emitted) = 1
    /\ emitted[1].signal = "selection_complete"
    /\ emitted[1].image.val.alpha # None

\* a left pointer-down has been handled in Window mode
C15_PressHandled ==
    /\ mode = "WINDOW"
    /\ last_event = "press"
    /\ start_point # None

\* a window is hovered: _update_hovered_window recorded a window handle
C15_Hovered == hovered_window # None /\ hovered_window.val # 0

\* the session was resolved by one capture_window(hovered_window) call:
\* Completed with its image, Cancelled when it returned nothing
C15_ResolvedByCapture ==
    /\ Len(captures) = 1
    /\ captures[1].call = "capture_window"
    /\ captures[1].args = <<hovered_window.val>>
    /\ emitted = <<IF captures[1].ret # None THEN Complete(captures[1].ret)
                   ELSE Cancelled>>

\* C15 as claimed: pointer-down with a hovered window resolves the session
\* by capture_window(hovered_window); with no hovered window it yields
\* Cancelled without a capture call; exactly one outcome is emitted.
C15_WindowPressResolves ==
    C15_PressHandled
        => /\ Len(emitted) = 1
           /\ C15_Hovered => C15_ResolvedByCapture
           /\ ~C15_Hovered => (emitted = <<Cancelled>> /\ captures = <<>>)

\* C15 amended: the session is resolved by capture_window(hovered_window)
\* when a window is hovered and the rectangle recorded for it is not empty;
\* with no hovered window or an empty recorded rectangle it yields Cancelled
\* without a capture call; exactly one outcome is emitted.
C15_WindowPressResolvesValidRect ==
    C15_PressHandled
        => /\ Len(emitted) = 1
           /\ (C15_Hovered /\ RectIsValid(window_rect.val))
                 => C15_ResolvedByCapture
           /\ ~(C15_Hovered /\ RectIsValid(window_rect.val))
                 => (emitted = <<Cancelled>> /\ captures = <<>>)

\* C15 witness: the hovered window vanished before the press:
\* capture_window returned nothing and the session was cancelled.
C15_Witness ==
    /\ C15_PressHandled
    /\ hovered_window = Some(101)
    /\ Len(captures) = 1
    /\ captures[1].ret = None
    /\ emitted = <<Cancelled>>

\* the timer of a Fullscreen session has fired
C16_TimerFired == mode = "FULLSCREEN" /\ last_event = "timer"

C17_Holds(m, x, y) ==
    /\ m.left <= x /\ x < m.right
    /\ m.top <= y /\ y < m.bottom

C30_ShapesTwoPointsFreehandAppends ==
    [][/\ \A i \in 1..Len(annotations') :
             annotations'[i].tool.tool_type \in ShapeTools
                 => Len(annotations'[i].points) <= 2
       /\ (/\ hist_op' = "mouseMoveEvent"
           /\ is_drawing /\ current_annotation # None
           /\ original_image # None)
          => LET a == current_annotation.val
                 b == current_annotation'.val
                 n == Len(a.points)
             IN /\ a.tool.tool_type \in ShapeTools
                     => /\ Len(b.points) = 2
                        /\ n <= 2
                        /\ b.points[1] = a.points[1]
                /\ a.tool.tool_type \in FreehandTools
                     => /\ Len(b.points) = n + 1
                        /\ SubSeq(b.points, 1, n) = a.points]_vars

(***************************************************************************)
(* Properties of get_virtual_screen_bounds (SpecBounds)                    *)
(***************************************************************************)
\* C29: the virtual screen bounds of a non-empty monitor list are the
\* smallest rectangle covering all monitors: every monitor lies inside
\* them, each of the four edges is the edge of some monitor, and width and
\* height are right - left and bottom - top.
C29_MinimalCoveringRectangle ==
    (call_args # None /\ call_args.val.monitors # <<>>)
        => LET ms == Range(call_args.val.monitors)
               b == call_ret.val
           IN /\ \A m \in ms : /\ b.left <= m.left /\ m.right <= b.right
                                /\ b.top <= m.top /\ m.bottom <= b.bottom
              /\ \E m \in ms : m.left = b.left
              /\ \E m \in ms : m.top = b.top
              /\ \E m \in ms : m.right = b.right
              /\ \E m \in ms : m.bottom = b.bottom
              /\ b.width = b.right - b.left
              /\ b.height = b.bottom - b.top

\* C29 witness: the primary display with one display to its left and one
\* above it: the bounds are (-1280, -1080) to (1920, 1080), 3200 by 2160.
C29_Witness ==
    /\ call_args = Some([monitors |-> <<Monitor(0, 0, 1920, 1080),
                                        Monitor(-1280, 0, 1280, 1024),
                                        Monitor(0, -1080, 1920, 1080)>>])
    /\ call_ret = Some([left |-> -1280, top |-> -1080, width |-> 3200,
                        height |-> 2160, right |-> 1920, bottom |-> 1080])

C19_SingleOutcome ==
    /\ Len(emitted) <= 1
    /\ \A i \in DOMAIN captures : ~captures[i].after_outcome

\* C27: in Freeform mode the path is the pointer-down point followed by
\* the point of every pointer-move made while selecting, in arrival order:
\* each such move appends its point, equal to the last one or not; a move
\* while not selecting adds nothing, and no other event changes the path.
C27_FreeformPathKeepsEveryMove ==
    [][mode = "FREEFORM"
          => /\ (last_event' = "press" /\ ~is_selecting /\ is_selecting')
                   => freeform_points' = <<start_point'.val>>
             /\ (last_event' = "move" /\ is_selecting)
                   => \E pos \in Positions :
                         freeform_points' = Append(freeform_points, pos)
             /\ (last_event' = "move" /\ ~is_selecting)
                   => freeform_points' = freeform_points
             /\ last_event' \notin {"press", "move"}
                   => freeform_points' = freeform_points
             /\ is_selecting'
                   => freeform_points'[1] = start_point'.val]_vars

\* C27 witness: pointer-down at (3,3), a move to (3,3) again and a move to
\* (10,0): the path holds all three points in that order.
C27_Witness ==
    /\ mode = "FREEFORM"
    /\ last_event = "move"
    /\ is_selecting
    /\ freeform_points = <<Point(3, 3), Point(3, 3), Point(10, 0)>>

\* C28: in Freeform mode a pointer-up with at least 3 path points yields
\* Cancelled and no capture when the path's bounding rectangle is under 5
\* wide or high; otherwise one capture_region call for the bounding
\* rectangle at overlay_offset + its origin is made before any outcome, and
\* the session completes with that image under a mask of the rectangle's
\* size whose polygon is the path translated by minus the rectangle's origin.
C28_FreeformPointerUp ==
    (/\ mode = "FREEFORM"
     /\ PointerUpHandled
     /\ Len(freeform_points) >= 3)
        => LET xs == {q.x : q \in Range(freeform_points)}
               ys == {q.y : q \in Range(freeform_points)}
               w == Max(xs) - Min(xs) + 1
               h == Max(ys) - Min(ys) + 1
               local == [i \in 1..Len(freeform_points) |->
                            Point(freeform_points[i].x - Min(xs),
                                  freeform_points[i].y - Min(ys))]
           IN IF w < 5 \/ h < 5
              THEN emitted = <<Cancelled>> /\ captures = <<>>
              ELSE /\ Len(captures) = 1
                   /\ captures[1].call = "capture_region"
                   /\ captures[1].args = <<overlay_offset.x + Min(xs),
                                           overlay_offset.y + Min(ys), w, h>>
                   /\ captures[1].ret = Some(Image(w, h, None))
                   /\ ~captures[1].after_outcome
                   /\ emitted = <<Complete(Some(Image(w, h,
                                      Some(Mask(w, h, local)))))>>

\* C28 witness: on the two-display overlay, whose origin is (-1280, 0), the
\* path [(3,3),(10,10),(4,4)] was released: the 8 by 8 region at screen
\* position (-1277, 3) was captured and masked by [(0,0),(7,7),(1,1)].
C28_Witness ==
    /\ mode = "FREEFORM"
    /\ PointerUpHandled
    /\ overlay_offset = Point(-1280, 0)
    /\ freeform_points = <<Point(3, 3), Point(10, 10), Point(4, 4)>>
    /\ captures[1].args = <<-1277, 3, 8, 8>>
    /\ emitted[1].image.val.alpha.val.polygon
           = <<Point(0, 0), Point(7, 7), Point(1, 1)>>

(***************************************************************************)
(* Properties of BretClipApp (SpecApp)                                     *)
(***************************************************************************)
\* C20: once the user has cancelled a countdown, the expiry of its timer
\* starts no capture.
C20_CancelledCountdownStartsNoCapture ==
    \A i \in DOMAIN started :
        started[i].by = "delay" => ~started[i].cancel_requested

\* C38: no delayed request is lost and none is served in another request's
\* mode: while a countdown is pending, its timer and its mode stay as they
\* are until the expiry of that timer starts the one capture of the
\* request, in the mode that was requested.
C38_PendingRequestServedInItsMode ==
    [][(delay_timer # None /\ delay_timer.val.active /\ pending_mode # None)
          => \/ UNCHANGED <<pending_mode, delay_timer>>
             \/ /\ ~delay_timer'.val.active
                /\ pending_mode' = None
                /\ Len(started') = Len(started) + 1
                /\ started'[Len(started')].by = "delay"
                /\ started'[Len(started')].mode = pending_mode.val]_vars

\* C39: the deferred cleanup scheduled by a completed capture clears the
\* selector of that capture only: when _cleanup_selector runs, the
\* application's selector is not a session that has reached no outcome.
C39_CleanupClearsCompletedSelectorOnly ==
    [][(cleanup_pending' = cleanup_pending - 1 /\ selector # None)
          => selector.val.done]_vars

\* C40: at most one selection session is live: _do_capture creates a
\* session only when the application holds no selector or one that has
\* reached its outcome, so that no second overlay is shown beside a live
\* one and no live overlay loses its place without an outcome.
C40_OneLiveSession ==
    [][Len(started') = Len(started) + 1
          => (selector = None \/ selector.val.done)]_vars

(***************************************************************************)
(* Properties of the threads of the application (SpecThreads)              *)
(***************************************************************************)
\* C21: no step of a thread other than the UI thread creates or changes UI
\* state (the selector, the editor, the delay timer and pending mode, the
\* application's event loop): the callbacks of the hotkey and of the tray
\* only queue a signal, and sessions are created by slots on the UI thread.
C21_UiStateOnUiThreadOnly ==
    [][thread' # "ui" => UNCHANGED <<avars, quit_called>>]_vars

(***************************************************************************)
(* Properties of AnnotationTool on the canvas (SpecTools)                  *)
(***************************************************************************)
\* a Highlighter tool has the highlighter's opacity and size
C22_Normalized(tool) ==
    tool.tool_type = "HIGHLIGHTER"
        => tool.opacity = HighlighterOpacity /\ tool.size = HighlighterSize

\* C22: a Highlighter tool is normalized at construction: opacity 0.4 and
\* size 20 whatever was passed, and the colour is yellow exactly when the
\* colour passed was absent or the default red; so every Highlighter
\* annotation of the working list, of the gesture under way and of every
\* history snapshot has opacity 0.4 and size 20.
C22_HighlighterNormalized ==
    /\ call_args # None
          => LET a == call_args.val
                 t == call_ret.val
             IN a.tool_type = "HIGHLIGHTER"
                   => /\ C22_Normalized(t)
                      /\ t.color = IF a.color \in {NoColor, Red}
                                   THEN Yellow ELSE a.color
                      /\ (t.color = Yellow) <=> (a.color \in {NoColor, Red})
    /\ C22_Normalized(current_tool)
    /\ \A i \in DOMAIN annotations : C22_Normalized(annotations[i].tool)
    /\ current_annotation # None
          => C22_Normalized(current_annotation.val.tool)
    /\ \A k \in DOMAIN history : \A i \in DOMAIN history[k] :
          C22_Normalized(history[k][i].tool)

\* C22 witness: a Highlighter built with no colour, size 8 and opacity 0.7
\* has drawn a stroke that is in the working list and in a snapshot.
C22_Witness ==
    /\ call_args = Some([tool_type |-> "HIGHLIGHTER", color |-> NoColor,
                         size |-> 8, opacity |-> 7])
    /\ call_ret.val.color = Yellow
    /\ annotations # <<>>
    /\ annotations[1].tool.tool_type = "HIGHLIGHTER"
    /\ history[current_index + 1] = annotations

(***************************************************************************)
(* Properties of SelectionOverlay with compositing failures                *)
(* (SpecOverlayFaults)                                                     *)
(***************************************************************************)
\* C23: a freeform selection that passed the size checks ends Completed
\* even when the compositing of its mask failed, then with the unmasked
\* capture of the bounding rectangle; it is never left without an outcome.
C23_CompositingFailureDegrades ==
    (/\ mode = "FREEFORM"
     /\ PointerUpHandled
     /\ Len(freeform_points) >= 3
     /\ RectWidth(boundingRect(freeform_points)) >= 5
     /\ RectHeight(boundingRect(freeform_points)) >= 5)
        => /\ Len(emitted) = 1
           /\ emitted[1].signal = "selection_complete"
           /\ crashed => emitted[1].image = captures[1].ret

(***************************************************************************)
(* Properties of the editor's objects (SpecHeap)                           *)
(***************************************************************************)
\* the values of the editor are what its objects hold
HeapHoldsValues ==
    /\ annotations = Deref(annotations_ref)
    /\ history = [k \in 1..Len(history_ref) |-> Deref(history_ref[k])]
    /\ current_annotation = IF current_annotation_ref = None THEN None
                            ELSE Some(ann_heap[current_annotation_ref.val])

\* C25: no canvas edit (gesture, text commit, clear_annotations) and no
\* undo or redo changes what a snapshot of the history holds, although undo
\* and redo give the snapshot's objects to the working list; after every
\* step each snapshot that was in the history holds the annotations it held.
C25_SnapshotsNeverChange ==
    [][/\ \A k \in DOMAIN history_ref :
             DerefIn(list_heap', ann_heap', history_ref[k])
                 = Deref(history_ref[k])
       /\ HeapHoldsValues']_vars

\* C25 witness: after an undo gave a snapshot's Annotation object to the
\* working list, a further stroke was drawn and released: the working list
\* holds an object that a snapshot of the history holds too, and a new one.
C25_Witness ==
    /\ hist_op = "mouseReleaseEvent"
    /\ modified
    /\ Len(list_heap[annotations_ref]) = 2
    /\ \E k \in DOMAIN history_ref :
          /\ list_heap[history_ref[k]] # <<>>
          /\ list_heap[history_ref[k]][1] = list_heap[annotations_ref][1]
    /\ \A k \in DOMAIN history_ref :
          list_heap[annotations_ref][2] \notin Range(list_heap[history_ref[k]])

====
